---- MODULE Spec2Model ----
(***************************************************************************)
(* herosync: inventory reconciliation of a GoPro's media store against the *)
(* local incoming and outgoing directories, and the download, cleanup,     *)
(* publish and combine commands that act on the inventory.                 *)
(*                                                                         *)
(* File names are sequences of one-character strings, so that the filename *)
(* decoder is a real pattern match.  Times are seconds since the epoch.    *)
(***************************************************************************)
EXTENDS Integers, Sequences, FiniteSets, TLC

VARIABLES
    device,        \* the camera's media store: listing entries, device-local times
    tzone,         \* the camera's timezone offset, minutes, signed
    incoming,      \* incoming directory: filename -> [size, mtime]
    outgoing,      \* outgoing directory: filename -> [size, mtime]
    flags,         \* command-line flags of the running command
    inv,           \* the inventory of the running command
    inv2,          \* a second build from the same inputs (build specification)
    pc,            \* position of the running command
    idx,           \* loop index of the running command
    ev,            \* what the last step did: a record with field op
    activeDownloads, \* download: the paths being downloaded
    outcomes,      \* per record of the running pass: how its handling ended
    delIssued,     \* indices of the records whose remote delete was requested
    uploadedVideos,  \* publish: the channel's videos, [key, duration]
    uploadedFileMap, \* publish: recording-date key and duration pairs of the pass
    groups,        \* combine: per key of the loop, the key and its filter result
    builds,        \* one snapshot per invocation: its build's inputs and inventory
    faults,        \* how the camera's requests and the local directories answer
    built,         \* what NewInventory returned: [isNil, files, err]
    call,          \* the last call of a method or function: its arguments and its result
    mdns,          \* discovery: the sender, the listener and their channels
    sig            \* the interrupt handler of the download command

world == <<device, tzone, incoming, outgoing>>

dlVars == <<activeDownloads, outcomes, delIssued, builds>>

scan == <<faults, built, call, mdns, sig>>

opts == <<flags, uploadedVideos, uploadedFileMap, groups, faults, built, call, mdns,
          sig>>

vars == <<device, tzone, incoming, outgoing, flags, inv, inv2, pc, idx, ev,
          activeDownloads, outcomes, delIssued, uploadedVideos, uploadedFileMap,
          groups, builds, faults, built, call, mdns, sig>>

(***************************************************************************)
(* Bounds and sample values.                                               *)
(***************************************************************************)
MaxFiles == 3

Sizes == {1000, 2000}
Times == {86000, 86400}

Dirs == {"100GOPRO", "101GOPRO"}
IncomingDir == "incoming"
OutgoingDir == "outgoing"

GH010007 == <<"G","H","0","1","0","0","0","7",".","M","P","4">>
GH020007 == <<"G","H","0","2","0","0","0","7",".","M","P","4">>
GX010008 == <<"G","X","0","1","0","0","0","8",".","M","P","4">>
NotesTxt == <<"n","o","t","e","s",".","t","x","t">>

Names == {GH010007, GH020007, NotesTxt}

(***************************************************************************)
(* Generic helpers.                                                        *)
(***************************************************************************)
Range(s) == {s[i] : i \in DOMAIN s}

Front(s) == SubSeq(s, 1, Len(s) - 1)

Last(s) == s[Len(s)]

\* All orders in which the keys of a Go map can be visited by range.
MapOrders(S) ==
    {o \in [1..Cardinality(S) -> S] : \A i, j \in DOMAIN o : i # j => o[i] # o[j]}

NoEvent == [op |-> "none"]

\* The variables of the download and publish commands, when neither runs.
NoFaults == [list |-> "ok", tz |-> "ok", incomingDir |-> "ok", outgoingDir |-> "ok"]

NoBuilt == [isNil |-> TRUE, files |-> <<>>, err |-> ""]

NoCall == [op |-> "none"]

NoDiscovery == [pc |-> "idle"]

\* The handler goroutine of handleInterrupt waits on sigChan: no file visited,
\* none removed.
NoSignal == [pc |-> "waiting", start |-> {}, visited |-> {}, removed |-> {}, at |-> "none"]

DlIdle ==
    /\ call = NoCall
    /\ mdns = NoDiscovery
    /\ sig = NoSignal
    /\ faults = NoFaults
    /\ built = NoBuilt
    /\ groups = <<>>
    /\ uploadedVideos = {}
    /\ uploadedFileMap = {}
    /\ activeDownloads = {}
    /\ outcomes = <<>>
    /\ delIssued = {}
    /\ builds = <<>>

(***************************************************************************)
(* Status(internal/media/inventory.go).                                    *)
(***************************************************************************)
OnlyRemote == "OnlyRemote"
OnlyLocal == "OnlyLocal"
InSync == "InSync"
OutOfSync == "OutOfSync"
Processed == "Processed"

Status == {OnlyRemote, OnlyLocal, InSync, OutOfSync, Processed}

File(dir, name, createdAt, size, status) ==
    [Directory |-> dir, Filename |-> name, CreatedAt |-> createdAt,
     Size |-> size, Status |-> status]

(***************************************************************************)
(* gopro.ParseFilename: ^G[XHLM]\d{2}\d{4}\.(MP4|THM|LRV)$                 *)
(***************************************************************************)
Digits == {"0", "1", "2", "3", "4", "5", "6", "7", "8", "9"}

DigitVal(c) ==
    CASE c = "0" -> 0 [] c = "1" -> 1 [] c = "2" -> 2 [] c = "3" -> 3
      [] c = "4" -> 4 [] c = "5" -> 5 [] c = "6" -> 6 [] c = "7" -> 7
      [] c = "8" -> 8 [] c = "9" -> 9

RECURSIVE Atoi(_)
Atoi(ds) ==
    IF ds = <<>> THEN 0 ELSE 10 * Atoi(Front(ds)) + DigitVal(Last(ds))

FilenameMatches(fn) ==
    /\ Len(fn) = 12
    /\ fn[1] = "G"
    /\ fn[2] \in {"X", "H", "L", "M"}
    /\ \A i \in 3..8 : fn[i] \in Digits
    /\ fn[9] = "."
    /\ SubSeq(fn, 10, 12) \in {<<"M","P","4">>, <<"T","H","M">>, <<"L","R","V">>}

ParseFilename(fn) ==
    IF FilenameMatches(fn)
    THEN [IsValid |-> TRUE, Quality |-> fn[2], Chapter |-> Atoi(SubSeq(fn, 3, 4)),
          MediaID |-> Atoi(SubSeq(fn, 5, 8)), FileType |-> SubSeq(fn, 10, 12)]
    ELSE [IsValid |-> FALSE, Quality |-> "", Chapter |-> 0,
          MediaID |-> 0, FileType |-> <<>>]

(***************************************************************************)
(* gopro.Client.GetMediaList: the listing with every creation time shifted *)
(* by the camera's timezone offset.  The listing is kept flat: one entry   *)
(* [d, n, cre, s] per file, in the order the two loops of                  *)
(* processRemoteFiles visit them.                                          *)
(***************************************************************************)
SecondsPerMinute == 60

\* adjustTimestamps with the offset taken off twice.
adjustTimestampsTwice(mediaList, tzOffset) ==
    [i \in DOMAIN mediaList |->
        [mediaList[i] EXCEPT !.cre = mediaList[i].cre - 2 * tzOffset * SecondsPerMinute]]

adjustTimestamps(mediaList, tzOffset) ==
    [i \in DOMAIN mediaList |->
        [mediaList[i] EXCEPT !.cre = mediaList[i].cre - tzOffset * SecondsPerMinute]]

GetMediaList(dev, tz) ==
    IF Len(dev) # 0 THEN adjustTimestamps(dev, tz) ELSE dev

(***************************************************************************)
(* media.NewInventory.                                                     *)
(***************************************************************************)
\* processRemoteFiles without the delete of the matched name from the incoming map.
RECURSIVE processRemoteFilesKeepMatched(_, _)
processRemoteFilesKeepMatched(mediaList, incomingFiles) ==
    IF mediaList = <<>>
    THEN [files |-> <<>>, left |-> DOMAIN incomingFiles]
    ELSE LET before == processRemoteFilesKeepMatched(Front(mediaList), incomingFiles)
             file == Last(mediaList)
             status == IF file.n \in before.left
                       THEN IF incomingFiles[file.n].size = file.s
                            THEN InSync ELSE OutOfSync
                       ELSE OnlyRemote
         IN  [files |-> Append(before.files,
                               File(file.d, file.n, file.cre, file.s, status)),
              left |-> before.left]

\* processRemoteFiles: the records of the listing, and what is left of the
\* incoming map once every matched name has been deleted from it.
RECURSIVE processRemoteFiles(_, _)
processRemoteFiles(mediaList, incomingFiles) ==
    IF mediaList = <<>>
    THEN [files |-> <<>>, left |-> DOMAIN incomingFiles]
    ELSE LET before == processRemoteFiles(Front(mediaList), incomingFiles)
             file == Last(mediaList)
             localFileExists == file.n \in before.left
             status == IF localFileExists
                       THEN IF incomingFiles[file.n].size = file.s
                            THEN InSync ELSE OutOfSync
                       ELSE OnlyRemote
         IN  [files |-> Append(before.files,
                               File(file.d, file.n, file.cre, file.s, status)),
              left |-> before.left \ {file.n}]

\* processIncomingFiles / processOutgoingFiles, for one visiting order of the map.
processLocalFiles(localFiles, order, dir, status) ==
    [i \in DOMAIN order |->
        File(dir, order[i], localFiles[order[i]].mtime, localFiles[order[i]].size, status)]

\* sort.Slice with less = CreatedAt.Before. For slices of at most 12 elements the
\* Go runtime sorts by insertion, which is what is modelled here.
RECURSIVE SortByCreatedAt(_)
InsertByCreatedAt(s, x) ==
    LET n == Len(s)
        k == CHOOSE k \in 0..n :
                /\ \A j \in (k + 1)..n : x.CreatedAt < s[j].CreatedAt
                /\ (k > 0 => ~(x.CreatedAt < s[k].CreatedAt))
    IN  SubSeq(s, 1, k) \o <<x>> \o SubSeq(s, k + 1, n)

SortByCreatedAt(files) ==
    IF files = <<>> THEN <<>>
    ELSE InsertByCreatedAt(SortByCreatedAt(Front(files)), Last(files))

\* The inventory built for one visiting order of each local map.
BuildInventory(mediaList, incomingFiles, outgoingFiles, incOrder, outOrder) ==
    LET r == processRemoteFiles(mediaList, incomingFiles)
    IN  SortByCreatedAt(
            r.files
            \o processLocalFiles(incomingFiles, incOrder, IncomingDir, OnlyLocal)
            \o processLocalFiles(outgoingFiles, outOrder, OutgoingDir, Processed))

\* Every inventory NewInventory can return for these inputs.
NewInventory(dev, tz, incomingFiles, outgoingFiles) ==
    LET mediaList == GetMediaList(dev, tz)
        left == processRemoteFiles(mediaList, incomingFiles).left
    IN  {BuildInventory(mediaList, incomingFiles, outgoingFiles, io, oo) :
            io \in MapOrders(left), oo \in MapOrders(DOMAIN outgoingFiles)}

(***************************************************************************)
(* Input spaces.                                                           *)
(***************************************************************************)
RemoteEntry == [d : Dirs, n : Names, cre : Times, s : Sizes]

LocalInfo == [size : Sizes, mtime : Times]

\* A listing names a file once per directory and lists each directory in one run.
IsListing(s) ==
    /\ \A i, j \in DOMAIN s : i # j => <<s[i].d, s[i].n>> # <<s[j].d, s[j].n>>
    /\ \A i, j, k \in DOMAIN s : (i < j /\ j < k /\ s[i].d = s[k].d) => s[j].d = s[i].d

ListingsOfLen == [r \in 0..MaxFiles |-> {s \in [1..r -> RemoteEntry] : IsListing(s)}]

LocalMapsOfCard ==
    [k \in 0..MaxFiles |->
        UNION {[S -> LocalInfo] : S \in {T \in SUBSET Names : Cardinality(T) = k}}]

NoFlags == [force |-> FALSE, keepOriginal |-> FALSE, remote |-> FALSE,
            local |-> FALSE, groupBy |-> "media-id"]

(***************************************************************************)
(* The build specification: NewInventory applied twice to inputs drawn     *)
(* from the input spaces.                                                  *)
(***************************************************************************)
BuildInit ==
    /\ \E r, i, o \in 0..MaxFiles :
        /\ r + i + o <= MaxFiles
        /\ device \in ListingsOfLen[r]
        /\ incoming \in LocalMapsOfCard[i]
        /\ outgoing \in LocalMapsOfCard[o]
    /\ tzone = 0
    /\ flags = NoFlags
    /\ inv = <<>>
    /\ inv2 = <<>>
    /\ pc = "start"
    /\ idx = 0
    /\ ev = NoEvent
    /\ DlIdle

Build ==
    /\ pc = "start"
    /\ inv' \in NewInventory(device, tzone, incoming, outgoing)
    /\ pc' = "built"
    /\ ev' = [op |-> "build"]
    /\ UNCHANGED <<world, opts, inv2, idx, dlVars>>

BuildAgain ==
    /\ pc = "built"
    /\ inv2' \in NewInventory(device, tzone, incoming, outgoing)
    /\ pc' = "rebuilt"
    /\ ev' = [op |-> "build"]
    /\ UNCHANGED <<world, opts, inv, idx, dlVars>>

BuildNext == Build \/ BuildAgain

SpecBuild == BuildInit /\ [][BuildNext]_vars

(***************************************************************************)
(* Claims about the built inventory.                                       *)
(***************************************************************************)
RemoteNames(mediaList) == {mediaList[i].n : i \in DOMAIN mediaList}

RecordsOf(files, dir, name) ==
    {k \in DOMAIN files : files[k].Directory = dir /\ files[k].Filename = name}

\* The status the reconciliation table gives a listed file.
TableStatus(e, incomingFiles) ==
    IF e.n \in DOMAIN incomingFiles
    THEN IF incomingFiles[e.n].size = e.s THEN InSync ELSE OutOfSync
    ELSE OnlyRemote

\* C1: every listed file has the status of the reconciliation table (InSync,
\* OutOfSync or OnlyRemote by the incoming file of its name), every incoming
\* file not listed remotely is OnlyLocal, and every outgoing file is Processed.
C1_StatusCorrect ==
    pc # "start" =>
        /\ \A i \in DOMAIN device :
            /\ RecordsOf(inv, device[i].d, device[i].n) # {}
            /\ \A k \in RecordsOf(inv, device[i].d, device[i].n) :
                inv[k].Status = TableStatus(device[i], incoming)
        /\ \A n \in DOMAIN incoming \ RemoteNames(device) :
            \E k \in RecordsOf(inv, IncomingDir, n) : inv[k].Status = OnlyLocal
        /\ \A n \in DOMAIN outgoing :
            \E k \in RecordsOf(inv, OutgoingDir, n) : inv[k].Status = Processed

\* C7 as stated: as many records as distinct filenames over the three inputs.
C7_DistinctNames ==
    pc # "start" =>
        Len(inv) = Cardinality(RemoteNames(device) \cup DOMAIN incoming
                                   \cup DOMAIN outgoing)

\* C7 amended: one record per listing entry, one per incoming file whose name
\* is not listed remotely, one per outgoing file; an incoming file whose name
\* is listed remotely has no record of its own.
C7_Conservation ==
    pc # "start" =>
        /\ Len(inv) = Len(device)
                        + Cardinality(DOMAIN incoming \ RemoteNames(device))
                        + Cardinality(DOMAIN outgoing)
        /\ \A i \in DOMAIN device :
            Cardinality(RecordsOf(inv, device[i].d, device[i].n)) = 1
        /\ \A n \in DOMAIN incoming :
            Cardinality(RecordsOf(inv, IncomingDir, n))
                = IF n \in RemoteNames(device) THEN 0 ELSE 1
        /\ \A n \in DOMAIN outgoing :
            Cardinality(RecordsOf(inv, OutgoingDir, n)) = 1

\* A build in which a listed file is also in incoming and an outgoing file
\* shares its name.
C7_Witness ==
    /\ pc = "built"
    /\ \E n \in DOMAIN incoming \cap DOMAIN outgoing : n \in RemoteNames(device)
    /\ Len(inv) = 2

\* C8: for each filename of the incoming directory the inventory holds at
\* most one record that is not Processed.
C8_OnePerIncomingName ==
    pc # "start" =>
        \A n \in DOMAIN incoming :
            Cardinality({k \in DOMAIN inv :
                            inv[k].Filename = n /\ inv[k].Status # Processed}) <= 1

\* C10: two builds from unchanged inputs return the same records in the same order.
C10_Deterministic == pc = "rebuilt" => inv2 = inv

(***************************************************************************)
(* fsutil.VerifySize: the size found by stat against the expected size,    *)
(* with the tolerance in percent (0: exact; 1: the 0.01 of combine).       *)
(***************************************************************************)
\* A check that accepts every size.
VerifySizeAny(actualSize, expectedSize, tolerancePct) == TRUE

VerifySize(actualSize, expectedSize, tolerancePct) ==
    IF tolerancePct = 0
    THEN actualSize = expectedSize
    ELSE ~ \/ actualSize * 100 < expectedSize * (100 - tolerancePct)
           \/ actualSize * 100 > expectedSize * (100 + tolerancePct)

VerifySizeExact(actualSize, expectedSize) == VerifySize(actualSize, expectedSize, 0)

(***************************************************************************)
(* The download command (cmd/download.go).                                 *)
(***************************************************************************)
MaxDlFiles == 2
MaxPasses == 2

Now == 90000
CreTimes == {86400}
DlNames == {GH010007, NotesTxt}

Put(m, k, v) == [x \in DOMAIN m \cup {k} |-> IF x = k THEN v ELSE m[x]]

\* The listing without the entry of directory d and name n.
RECURSIVE RemoveEntry(_, _, _)
RemoveEntry(dev, d, n) ==
    IF dev = <<>> THEN <<>>
    ELSE IF Last(dev).d = d /\ Last(dev).n = n
         THEN RemoveEntry(Front(dev), d, n)
         ELSE Append(RemoveEntry(Front(dev), d, n), Last(dev))

OnDevice(dev, d, n) == \E i \in DOMAIN dev : dev[i].d = d /\ dev[i].n = n

shouldDownload(file, force) ==
    CASE file.Status = OnlyRemote -> TRUE
      [] file.Status \in {OutOfSync, InSync} -> force
      [] OTHER -> FALSE

\* What a transfer that ends with an error leaves in the created file, and what
\* one that ends without error has written (the device may serve a body that is
\* not the listed size).
PartialSizes(size) == {0} \cup {w \in Sizes : w < size}

ServedSizes(size) == Sizes \cup {size}

DlEntry == [d : Dirs, n : DlNames, cre : CreTimes, s : {1000}]

DlListings ==
    UNION {{l \in [1..r -> DlEntry] : IsListing(l)} : r \in 0..MaxDlFiles}

DlIncoming ==
    UNION {[S -> [size : Sizes, mtime : CreTimes]] :
              S \in {T \in SUBSET DlNames : Cardinality(T) <= 1}}

DownloadInit ==
    /\ device \in DlListings
    /\ tzone = 60
    /\ incoming \in DlIncoming
    /\ outgoing = <<>>
    /\ \E f, k \in BOOLEAN : flags = [NoFlags EXCEPT !.force = f, !.keepOriginal = k]
    /\ inv = <<>>
    /\ inv2 = <<>>
    /\ pc = "start"
    /\ idx = 0
    /\ ev = NoEvent
    /\ DlIdle

\* runDownload up to the loop: the inventory of this invocation.
DlBuild ==
    /\ pc = "start"
    /\ inv' \in NewInventory(device, tzone, incoming, outgoing)
    /\ builds' = Append(builds, [inv |-> inv', incoming |-> incoming, device |-> device])
    /\ idx' = 1
    /\ outcomes' = <<>>
    /\ delIssued' = {}
    /\ pc' = "loop"
    /\ ev' = [op |-> "build"]
    /\ UNCHANGED <<world, opts, inv2, activeDownloads>>

\* downloadAndVerify returns: the deferred delete from activeDownloads, and the
\* loop of downloadInventory moves on, whatever the result.
DlReturn(outcome) ==
    /\ activeDownloads' = activeDownloads \ {inv[idx].Filename}
    /\ outcomes' = Append(outcomes, outcome)
    /\ idx' = idx + 1
    /\ pc' = "loop"
    /\ ev' = [op |-> outcome, idx |-> idx]

DlSkip ==
    /\ pc = "loop"
    /\ idx <= Len(inv)
    /\ ~shouldDownload(inv[idx], flags.force)
    /\ outcomes' = Append(outcomes, "skipped")
    /\ idx' = idx + 1
    /\ ev' = [op |-> "skipped", idx |-> idx]
    /\ UNCHANGED <<world, opts, inv, inv2, pc, activeDownloads, delIssued, builds>>

DlBegin ==
    /\ pc = "loop"
    /\ idx <= Len(inv)
    /\ shouldDownload(inv[idx], flags.force)
    /\ activeDownloads' = activeDownloads \cup {inv[idx].Filename}
    /\ pc' = "transfer"
    /\ ev' = [op |-> "begin", idx |-> idx]
    /\ UNCHANGED <<world, opts, inv, inv2, idx, outcomes, delIssued, builds>>

\* DownloadMediaFile fails before the local file is created.
DlGetFail ==
    /\ pc = "transfer"
    /\ DlReturn("get-failed")
    /\ UNCHANGED <<world, opts, inv, inv2, delIssued, builds>>

\* DownloadMediaFile creates the file and io.Copy fails part-way.
DlCopyFail ==
    /\ pc = "transfer"
    /\ OnDevice(device, inv[idx].Directory, inv[idx].Filename)
    /\ \E w \in PartialSizes(inv[idx].Size) :
        incoming' = Put(incoming, inv[idx].Filename, [size |-> w, mtime |-> Now])
    /\ DlReturn("copy-failed")
    /\ UNCHANGED <<device, tzone, outgoing, opts, inv, inv2, delIssued, builds>>

DlCopyOK ==
    /\ pc = "transfer"
    /\ OnDevice(device, inv[idx].Directory, inv[idx].Filename)
    /\ \E w \in ServedSizes(inv[idx].Size) :
        incoming' = Put(incoming, inv[idx].Filename, [size |-> w, mtime |-> Now])
    /\ pc' = "mtime"
    /\ ev' = [op |-> "copied", idx |-> idx]
    /\ UNCHANGED <<device, tzone, outgoing, opts, inv, inv2, idx, dlVars>>

DlMtimeFail ==
    /\ pc = "mtime"
    /\ DlReturn("mtime-failed")
    /\ UNCHANGED <<world, opts, inv, inv2, delIssued, builds>>

\* os.Chtimes needs the file to be there.
DlMtimeOK ==
    /\ pc = "mtime"
    /\ inv[idx].Filename \in DOMAIN incoming
    /\ incoming' = [incoming EXCEPT ![inv[idx].Filename].mtime = inv[idx].CreatedAt]
    /\ pc' = "verify"
    /\ ev' = [op |-> "mtime-set", idx |-> idx]
    /\ UNCHANGED <<device, tzone, outgoing, opts, inv, inv2, idx, dlVars>>

\* os.Stat fails on a missing file, or the size differs.
DlVerifyFail ==
    /\ pc = "verify"
    /\ IF inv[idx].Filename \in DOMAIN incoming
       THEN ~VerifySizeExact(incoming[inv[idx].Filename].size, inv[idx].Size)
       ELSE TRUE
    /\ DlReturn("verify-failed")
    /\ UNCHANGED <<world, opts, inv, inv2, delIssued, builds>>

DlVerifyOK ==
    /\ pc = "verify"
    /\ inv[idx].Filename \in DOMAIN incoming
    /\ VerifySizeExact(incoming[inv[idx].Filename].size, inv[idx].Size)
    /\ pc' = "verified"
    /\ ev' = [op |-> "verified", idx |-> idx]
    /\ UNCHANGED <<world, opts, inv, inv2, idx, dlVars>>

DlKeep ==
    /\ pc = "verified"
    /\ flags.keepOriginal
    /\ DlReturn("kept")
    /\ UNCHANGED <<world, opts, inv, inv2, delIssued, builds>>

DlDeleteOK ==
    /\ pc = "verified"
    /\ ~flags.keepOriginal
    /\ device' = RemoveEntry(device, inv[idx].Directory, inv[idx].Filename)
    /\ delIssued' = delIssued \cup {idx}
    /\ DlReturn("deleted")
    /\ UNCHANGED <<tzone, incoming, outgoing, opts, inv, inv2, builds>>

\* DeleteSingleMediaFile returns an error.
DlDeleteFail ==
    /\ pc = "verified"
    /\ ~flags.keepOriginal
    /\ delIssued' = delIssued \cup {idx}
    /\ DlReturn("delete-failed")
    /\ UNCHANGED <<world, opts, inv, inv2, builds>>

DlDone ==
    /\ pc = "loop"
    /\ idx > Len(inv)
    /\ pc' = "done"
    /\ ev' = [op |-> "done"]
    /\ UNCHANGED <<world, opts, inv, inv2, idx, dlVars>>

\* The command is invoked again.
DlAgain ==
    /\ pc = "done"
    /\ Len(builds) < MaxPasses
    /\ pc' = "start"
    /\ ev' = [op |-> "invoke"]
    /\ UNCHANGED <<world, opts, inv, inv2, idx, dlVars>>

\* One invocation of the command.
DownloadNext ==
    \/ DlBuild \/ DlSkip \/ DlBegin \/ DlGetFail \/ DlCopyFail \/ DlCopyOK
    \/ DlMtimeFail \/ DlMtimeOK \/ DlVerifyFail \/ DlVerifyOK \/ DlKeep
    \/ DlDeleteOK \/ DlDeleteFail \/ DlDone

SpecDownload == DownloadInit /\ [][DownloadNext]_vars

\* Successive invocations, each with a build of its own.
RoundTripNext == DownloadNext \/ DlAgain

SpecRoundTrip == DownloadInit /\ [][RoundTripNext]_vars

(***************************************************************************)
(* Claims about the download command.                                      *)
(***************************************************************************)
DlFailures == {"get-failed", "copy-failed", "mtime-failed", "verify-failed"}

\* The listing entries that were on the camera at this invocation's build and
\* are not on it any more.
GoneSinceBuild ==
    IF builds = <<>> THEN {}
    ELSE Range(Last(builds).device) \ Range(device)

\* C2: a remote delete is requested only for a file whose incoming copy exists
\* with exactly the listed size, and never with keep-original; a file whose
\* transfer, mtime update or verification failed, or that was kept, gets no
\* delete request and stays on the camera.
C2_DeleteAfterVerified ==
    /\ ev.op \in {"deleted", "delete-failed"} =>
        /\ ~flags.keepOriginal
        /\ ev.idx \in delIssued
        /\ inv[ev.idx].Filename \in DOMAIN incoming
        /\ incoming[inv[ev.idx].Filename].size = inv[ev.idx].Size
    /\ \A i \in DOMAIN outcomes :
        outcomes[i] \in DlFailures \cup {"kept", "skipped"} => i \notin delIssued
    /\ \A e \in GoneSinceBuild :
        \E i \in delIssued : inv[i].Directory = e.d /\ inv[i].Filename = e.n
    /\ flags.keepOriginal => delIssued = {}

\* A pass in which one file failed verification and a later one was deleted.
C2_Witness ==
    /\ ev.op = "deleted"
    /\ \E i \in DOMAIN outcomes : outcomes[i] = "verify-failed"
    /\ Len(device) < Len(Last(builds).device)

NamedRecords(files, name) == {k \in DOMAIN files : files[k].Filename = name}

\* C9: a listed file absent from incoming is built as one OnlyRemote record with
\* the listed size and the creation time minus the timezone offset; once a file
\* of its name and size is in incoming, the camera unchanged, the next build
\* holds exactly one record of that filename, and it is InSync.
C9_RoundTrip ==
    \A k \in 1..Len(builds) :
        \A e \in Range(builds[k].device) :
            e.n \notin DOMAIN builds[k].incoming =>
                /\ \A j \in RecordsOf(builds[k].inv, e.d, e.n) :
                    builds[k].inv[j] = File(e.d, e.n, e.cre - tzone * SecondsPerMinute,
                                            e.s, OnlyRemote)
                /\ Cardinality(RecordsOf(builds[k].inv, e.d, e.n)) = 1
                /\ ( /\ k < Len(builds)
                     /\ builds[k + 1].device = builds[k].device
                     /\ e.n \in DOMAIN builds[k + 1].incoming
                     /\ builds[k + 1].incoming[e.n].size = e.s )
                   => /\ Cardinality(NamedRecords(builds[k + 1].inv, e.n)) = 1
                      /\ \A j \in NamedRecords(builds[k + 1].inv, e.n) :
                            builds[k + 1].inv[j].Status = InSync

(***************************************************************************)
(* The cleanup command (cmd/cleanup.go).                                   *)
(***************************************************************************)
\* Flags alone decide, whatever the status.
shouldCleanupByFlags(file, remote, local) ==
    [deleteRemote |-> remote, deleteLocal |-> local]

shouldCleanup(file, remote, local) ==
    IF file.Status = InSync
    THEN IF ~remote /\ ~local THEN [deleteRemote |-> TRUE, deleteLocal |-> FALSE]
         ELSE IF ~remote /\ local THEN [deleteRemote |-> FALSE, deleteLocal |-> TRUE]
         ELSE [deleteRemote |-> remote, deleteLocal |-> local]
    ELSE [deleteRemote |-> remote /\ file.Status # OnlyLocal,
          deleteLocal |-> local /\ file.Status # OnlyRemote]

\* os.Remove of the file named k.
Drop(files, k) == [x \in DOMAIN files \ {k} |-> files[x]]

CleanupInit ==
    /\ device \in DlListings
    /\ tzone = 60
    /\ incoming \in DlIncoming
    /\ outgoing \in DlIncoming
    /\ \E r, l \in BOOLEAN : flags = [NoFlags EXCEPT !.remote = r, !.local = l]
    /\ inv = <<>>
    /\ inv2 = <<>>
    /\ pc = "start"
    /\ idx = 0
    /\ ev = NoEvent
    /\ DlIdle

\* runCleanup up to the loop.
ClBuild ==
    /\ pc = "start"
    /\ inv' \in NewInventory(device, tzone, incoming, outgoing)
    /\ builds' = <<[inv |-> inv', incoming |-> incoming, device |-> device]>>
    /\ idx' = 1
    /\ pc' = "loop"
    /\ ev' = [op |-> "build"]
    /\ UNCHANGED <<world, opts, inv2, activeDownloads, outcomes, delIssued>>

\* cleanupFile for the record at idx: the remote delete request, which the
\* device may refuse, then the removal of the local file of that name, which
\* may fail or find no file.
cleanupFile ==
    /\ pc = "loop"
    /\ idx <= Len(inv)
    /\ LET file == inv[idx]
           todo == shouldCleanup(file, flags.remote, flags.local)
       IN  /\ \E remoteOK \in BOOLEAN :
                device' = IF todo.deleteRemote /\ remoteOK
                          THEN RemoveEntry(device, file.Directory, file.Filename)
                          ELSE device
           /\ \E localOK \in BOOLEAN :
                incoming' = IF todo.deleteLocal /\ localOK
                            THEN Drop(incoming, file.Filename)
                            ELSE incoming
           /\ outcomes' = Append(outcomes, todo)
           /\ delIssued' = IF todo.deleteRemote THEN delIssued \cup {idx} ELSE delIssued
           /\ ev' = [op |-> "cleanup", idx |-> idx]
    /\ idx' = idx + 1
    /\ UNCHANGED <<tzone, outgoing, opts, inv, inv2, pc, activeDownloads, builds>>

ClDone ==
    /\ pc = "loop"
    /\ idx > Len(inv)
    /\ pc' = "done"
    /\ ev' = [op |-> "done"]
    /\ UNCHANGED <<world, opts, inv, inv2, idx, dlVars>>

CleanupNext == ClBuild \/ cleanupFile \/ ClDone

SpecCleanup == CleanupInit /\ [][CleanupNext]_vars

(***************************************************************************)
(* Claims about the cleanup command.                                       *)
(***************************************************************************)
\* C3: with neither --remote nor --local, the remote delete is requested for a
\* record exactly when its status is InSync, only files of InSync records leave
\* the camera, and nothing local is removed; under every flag combination a
\* local removal is attempted only with --local, and without it the incoming
\* files stay as they were at the build.
C3_SafeDefault ==
    /\ (~flags.remote /\ ~flags.local) =>
        /\ \A i \in DOMAIN outcomes :
            /\ outcomes[i].deleteRemote <=> inv[i].Status = InSync
            /\ ~outcomes[i].deleteLocal
        /\ \A e \in GoneSinceBuild :
            \E i \in DOMAIN outcomes :
                /\ inv[i].Directory = e.d
                /\ inv[i].Filename = e.n
                /\ inv[i].Status = InSync
    /\ \A i \in DOMAIN outcomes : outcomes[i].deleteLocal => flags.local
    /\ (~flags.local /\ builds # <<>>) => incoming = Last(builds).incoming

\* A default cleanup that ended having removed the camera's copy of an InSync
\* file, with a file of another status left on the camera and the incoming
\* file still there.
C3_Witness ==
    /\ pc = "done"
    /\ ~flags.remote /\ ~flags.local
    /\ \E i \in DOMAIN inv :
        /\ inv[i].Status = InSync
        /\ ~OnDevice(device, inv[i].Directory, inv[i].Filename)
        /\ inv[i].Filename \in DOMAIN incoming
    /\ \E i \in DOMAIN inv :
        /\ inv[i].Status \in {OnlyRemote, OutOfSync}
        /\ OnDevice(device, inv[i].Directory, inv[i].Filename)

(***************************************************************************)
(* The publish command (cmd/publish.go).                                   *)
(***************************************************************************)
MaxPubFiles == 2
MaxVideos == 2

durationTolerance == 100

SecondsPerDay == 86400

PubTimes == {90000, 100000, 180000}
Durations == {1000, 1100, 1200, 1201}

\* An outgoing file as publish reads it: name, creation time, duration in ms.
PubFile == [Filename : {GX010008}, CreatedAt : PubTimes, Duration : Durations]

\* A video of the channel: with or without recording details, the recording
\* date as the service reports it, the duration in ms.
Video == [hasDate : BOOLEAN, key : {SecondsPerDay}, duration : {1000, 1200}]

\* The date truncated to midnight.
formatRecordingDate(t) == t - (t % SecondsPerDay)

\* Equal durations only.
withinToleranceExact(a, b) == a = b

withinTolerance(a, b) ==
    IF a > b THEN a - b <= durationTolerance ELSE b - a <= durationTolerance

shouldUpload(key, duration, fileMap) ==
    ~ \E p \in fileMap : p.key = key /\ withinTolerance(p.duration, duration)

PublishInit ==
    /\ device = <<>>
    /\ tzone = 0
    /\ incoming = <<>>
    /\ outgoing = <<>>
    /\ flags = NoFlags
    /\ \E n \in 0..MaxPubFiles : inv \in [1..n -> PubFile]
    /\ inv2 = <<>>
    /\ pc = "start"
    /\ idx = 0
    /\ ev = NoEvent
    /\ uploadedVideos \in {V \in SUBSET Video : Cardinality(V) <= MaxVideos}
    /\ uploadedFileMap = {}
    /\ groups = <<>>
    /\ activeDownloads = {}
    /\ outcomes = <<>>
    /\ delIssued = {}
    /\ builds = <<>>
    /\ faults = NoFaults
    /\ built = NoBuilt
    /\ call = NoCall
    /\ mdns = NoDiscovery
    /\ sig = NoSignal

\* runPublish: the map of recording date to durations, from the channel's
\* videos that carry recording details.
PubStart ==
    /\ pc = "start"
    /\ uploadedFileMap' =
        {[key |-> v.key, duration |-> v.duration] : v \in {w \in uploadedVideos : w.hasDate}}
    /\ builds' = <<[videos |-> uploadedVideos]>>
    /\ idx' = 1
    /\ pc' = "loop"
    /\ ev' = [op |-> "start"]
    /\ UNCHANGED <<world, flags, uploadedVideos, groups, inv, inv2, activeDownloads,
                   outcomes, delIssued, scan>>

PubKey(file) == [key |-> formatRecordingDate(file.CreatedAt), duration |-> file.Duration]

PubSkip ==
    /\ pc = "loop"
    /\ idx <= Len(inv)
    /\ ~shouldUpload(PubKey(inv[idx]).key, inv[idx].Duration, uploadedFileMap)
    /\ outcomes' = Append(outcomes, "skipped")
    /\ idx' = idx + 1
    /\ ev' = [op |-> "skipped", idx |-> idx]
    /\ UNCHANGED <<world, opts, inv, inv2, pc, activeDownloads, delIssued, builds>>

\* The file passes shouldUpload: its key and duration enter the map, then the
\* upload is tried.
PubAttempt(outcome) ==
    /\ pc = "loop"
    /\ idx <= Len(inv)
    /\ shouldUpload(PubKey(inv[idx]).key, inv[idx].Duration, uploadedFileMap)
    /\ uploadedFileMap' = uploadedFileMap \cup {PubKey(inv[idx])}
    /\ outcomes' = Append(outcomes, outcome)
    /\ idx' = idx + 1
    /\ ev' = [op |-> outcome, idx |-> idx]
    /\ UNCHANGED <<world, flags, groups, inv, inv2, pc, activeDownloads, delIssued, builds,
                   scan>>

PubOpenFail == PubAttempt("open-failed") /\ UNCHANGED uploadedVideos

PubUploadFail == PubAttempt("upload-failed") /\ UNCHANGED uploadedVideos

PubUploadOK ==
    /\ PubAttempt("uploaded")
    /\ uploadedVideos' = uploadedVideos \cup
        {[hasDate |-> TRUE, key |-> inv[idx].CreatedAt, duration |-> inv[idx].Duration]}

PubDone ==
    /\ pc = "loop"
    /\ idx > Len(inv)
    /\ pc' = "done"
    /\ ev' = [op |-> "done"]
    /\ UNCHANGED <<world, opts, inv, inv2, idx, dlVars>>

PublishNext ==
    PubStart \/ PubSkip \/ PubOpenFail \/ PubUploadFail \/ PubUploadOK \/ PubDone

SpecPublish == PublishInit /\ [][PublishNext]_vars

(***************************************************************************)
(* Claims about the publish command.                                       *)
(***************************************************************************)
CloseDurations(a, b) == a - b <= durationTolerance /\ b - a <= durationTolerance

SameDay(t, u) == t \div SecondsPerDay = u \div SecondsPerDay

\* The file at i has a match: a video that was on the channel with recording
\* details when the pass began, or a file earlier in the pass whose upload was
\* tried, of the same recording day and a duration within the tolerance.
HasMatch(i) ==
    \/ \E v \in builds[1].videos :
        /\ v.hasDate
        /\ v.key = (inv[i].CreatedAt \div SecondsPerDay) * SecondsPerDay
        /\ CloseDurations(v.duration, inv[i].Duration)
    \/ \E j \in 1..(i - 1) :
        /\ outcomes[j] # "skipped"
        /\ SameDay(inv[j].CreatedAt, inv[i].CreatedAt)
        /\ CloseDurations(inv[j].Duration, inv[i].Duration)

HasUnsyncedFilesNever(files) == FALSE

HasUnsyncedFiles(files) ==
    \E i \in DOMAIN files : files[i].Status # InSync /\ files[i].Status # OnlyLocal

RECURSIVE TotalSize(_)
TotalSize(files) ==
    IF files = <<>> THEN 0 ELSE TotalSize(Front(files)) + Last(files).Size

Chapter(file) == ParseFilename(file.Filename).Chapter

\* slices.SortFunc on the chapter number: an insertion sort at these lengths.
RECURSIVE InsertByChapter(_, _)
InsertByChapter(sorted, file) ==
    IF sorted = <<>> THEN <<file>>
    ELSE IF Chapter(file) - Chapter(Last(sorted)) < 0
         THEN Append(InsertByChapter(Front(sorted), file), Last(sorted))
         ELSE Append(sorted, file)

RECURSIVE SortByChapter(_)
SortByChapter(files) ==
    IF files = <<>> THEN <<>>
    ELSE InsertByChapter(SortByChapter(Front(files)), Last(files))

IsChapterOf(file, mediaID) ==
    /\ file.Status # Processed
    /\ ParseFilename(file.Filename).IsValid
    /\ ParseFilename(file.Filename).MediaID = mediaID

\* FilterByMediaID without the sort.
FilterByMediaIDUnsorted(files, mediaID) ==
    LET chapters == SelectSeq(files, LAMBDA f : IsChapterOf(f, mediaID))
    IN  [files |-> chapters, err |-> chapters = <<>>]

\* The result and whether the NoMatch error is returned.
FilterByMediaID(files, mediaID) ==
    LET chapters == SelectSeq(files, LAMBDA f : IsChapterOf(f, mediaID))
    IN  [files |-> SortByChapter(chapters), err |-> chapters = <<>>]

DayOf(t) == t \div SecondsPerDay

\* The records of files at the ascending indices of the set.
RECURSIVE Pick(_, _)
Pick(files, indices) ==
    IF indices = {} THEN <<>>
    ELSE LET last == CHOOSE i \in indices : \A j \in indices : j <= i
         IN  Append(Pick(files, indices \ {last}), files[last])

\* FilterByDate without the skip of Processed records.
FilterByDateAnyStatus(files, day) ==
    [files |-> Pick(files, {i \in DOMAIN files : DayOf(files[i].CreatedAt) = day}),
     err |-> \A i \in DOMAIN files : DayOf(files[i].CreatedAt) # day]

FilterByDate(files, day) ==
    LET filtered == SelectSeq(files, LAMBDA f : f.Status # Processed /\ DayOf(f.CreatedAt) = day)
    IN  [files |-> filtered, err |-> filtered = <<>>]

\* slices.Sort of a list without duplicates.
RECURSIVE SortedSeq(_)
SortedSeq(S) ==
    IF S = {} THEN <<>>
    ELSE LET least == CHOOSE x \in S : \A y \in S : x <= y
         IN  <<least>> \o SortedSeq(S \ {least})

\* The media ID of every non-Processed record, the zero of an undecodable name
\* included.
MediaIDs(files) ==
    SortedSeq({ParseFilename(files[i].Filename).MediaID :
                  i \in {j \in DOMAIN files : files[j].Status # Processed}})

UniqueDates(files) ==
    SortedSeq({DayOf(files[i].CreatedAt) :
                  i \in {j \in DOMAIN files : files[j].Status # Processed}})

(***************************************************************************)
(* The combine command (cmd/combine.go).  Its original media directory is  *)
(* the incoming directory, its processed media directory the outgoing one. *)
(***************************************************************************)
MaxCbFiles == 3

GH030007 == <<"G","H","0","3","0","0","0","7",".","M","P","4">>

CbNameOrder == <<GH010007, GH020007, GH030007, GX010008, NotesTxt>>
CbTimes == {86000, 90000}
CbDir == "100GOPRO"

\* Where a file is at the start: on the camera only, in incoming only, on both
\* with the same size, on both with different sizes.
Kinds == {"remote", "local", "same", "differ"}

\* The camera's listing, in name order, and the incoming directory of a choice
\* f of kind and time per name.
CbListing(f) ==
    LET listed == SelectSeq(CbNameOrder,
                      LAMBDA n : n \in DOMAIN f /\ f[n].kind \in {"remote", "same", "differ"})
    IN  [i \in DOMAIN listed |->
            [d |-> CbDir, n |-> listed[i], cre |-> f[listed[i]].t, s |-> 1000]]

CbIncoming(f) ==
    [n \in {x \in DOMAIN f : f[x].kind \in {"local", "same", "differ"}} |->
        [size |-> IF f[n].kind = "differ" THEN 2000 ELSE 1000, mtime |-> f[n].t]]

DigitChar(d) == <<"0", "1", "2", "3", "4", "5", "6", "7", "8", "9">>[d + 1]

\* %d
RECURSIVE Itoa(_)
Itoa(n) == IF n < 10 THEN <<DigitChar(n)>> ELSE Append(Itoa(n \div 10), DigitChar(n % 10))

\* %04d
Pad4(n) == IF Len(Itoa(n)) >= 4 THEN Itoa(n)
           ELSE [i \in 1..(4 - Len(Itoa(n))) |-> "0"] \o Itoa(n)

Mp4Ext == <<".", "m", "p", "4">>

\* The name without its extension; a date is written as its day number.
OutputStem(files, groupBy) ==
    IF groupBy = "media-id"
    THEN <<"g", "o", "p", "r", "o", "-">> \o Pad4(ParseFilename(files[1].Filename).MediaID)
    ELSE <<"d", "a", "i", "l", "y", "-">> \o Itoa(DayOf(files[1].CreatedAt))

CounterName(stem, counter) ==
    IF counter = 0 THEN stem \o Mp4Ext ELSE stem \o <<"_">> \o Itoa(counter) \o Mp4Ext

\* filepath.Ext: the suffix from the last dot on, empty without a dot.
LastDot(s) ==
    IF \E i \in DOMAIN s : s[i] = "."
    THEN CHOOSE i \in DOMAIN s : s[i] = "." /\ \A j \in (i + 1)..Len(s) : s[j] # "."
    ELSE 0

Ext(s) == IF LastDot(s) = 0 THEN <<>> ELSE SubSeq(s, LastDot(s), Len(s))

\* strings.TrimSuffix(base, ext)
TrimExt(s) == SubSeq(s, 1, Len(s) - Len(Ext(s)))

\* The loop of GenerateUniqueFilename: os.Stat(newPath), and on a hit the
\* next name_<counter>ext.
RECURSIVE UniqueLoop(_, _, _, _, _)
UniqueLoop(dirFiles, name, ext, newPath, counter) ==
    IF newPath \notin DOMAIN dirFiles
    THEN newPath
    ELSE UniqueLoop(dirFiles, name, ext, name \o <<"_">> \o Itoa(counter) \o ext, counter + 1)

\* GenerateUniqueFilename returning the base path without looking.
GenerateUniqueFilenameNoStat(dirFiles, basePath) == basePath

\* fsutil.GenerateUniqueFilename
GenerateUniqueFilename(dirFiles, basePath) ==
    UniqueLoop(dirFiles, TrimExt(basePath), Ext(basePath), basePath, 1)

generateOutputPath(files, groupBy, dirFiles) ==
    GenerateUniqueFilename(dirFiles, OutputStem(files, groupBy) \o Mp4Ext)

buildFFmpegInputList(files, mediaDir) ==
    [i \in DOMAIN files |-> <<mediaDir, files[i].Filename>>]

\* The keys of the loop, and per key the result of its filter.
CbKeys(files, groupBy) ==
    IF groupBy = "media-id" THEN MediaIDs(files) ELSE UniqueDates(files)

CbGroup(files, groupBy, key) ==
    IF groupBy = "media-id" THEN FilterByMediaID(files, key) ELSE FilterByDate(files, key)

CbGroups(files, groupBy) ==
    LET keys == CbKeys(files, groupBy)
    IN  [i \in DOMAIN keys |->
            [key |-> keys[i],
             files |-> CbGroup(files, groupBy, keys[i]).files,
             err |-> CbGroup(files, groupBy, keys[i]).err]]

\* What ffmpeg may have written when it ends without error.
OutSizes(total) == {total, total + total \div 50}

CombineInit ==
    /\ \E S \in {T \in SUBSET Range(CbNameOrder) : Cardinality(T) <= MaxCbFiles} :
        /\ \E f \in {g \in [S -> [kind : Kinds, t : CbTimes]] :
                        \A n \in S \cap {GX010008, NotesTxt} :
                            g[n].kind \in {"remote", "local"} /\ g[n].t = 90000} :
            /\ device = CbListing(f)
            /\ incoming = CbIncoming(f)
        /\ \/ outgoing = <<>>
           \/ /\ Cardinality(S) < MaxCbFiles
              /\ outgoing = [n \in {GH020007} |-> [size |-> 1000, mtime |-> 86000]]
    /\ tzone = 0
    /\ flags = NoFlags
    /\ inv = <<>>
    /\ inv2 = <<>>
    /\ pc = "start"
    /\ idx = 0
    /\ ev = NoEvent
    /\ DlIdle

\* runCombine: the inventory.
CbBuild ==
    /\ pc = "start"
    /\ inv' \in NewInventory(device, tzone, incoming, outgoing)
    /\ builds' = <<[inv |-> inv', incoming |-> incoming, device |-> device,
                    outgoing |-> outgoing]>>
    /\ pc' = "built"
    /\ ev' = [op |-> "build"]
    /\ UNCHANGED <<world, opts, inv2, idx, activeDownloads, outcomes, delIssued>>

\* runCombine: the group-by setting and the keep-original flag are read, and
\* combineByMediaID or combineByDate lists its keys.
CbOptions ==
    /\ pc = "built"
    /\ \E k \in BOOLEAN, g \in {"media-id", "date"} :
        /\ flags' = [flags EXCEPT !.keepOriginal = k, !.groupBy = g]
        /\ groups' = CbGroups(inv, g)
    /\ idx' = 1
    /\ pc' = "loop"
    /\ ev' = [op |-> "options"]
    /\ UNCHANGED <<world, uploadedVideos, uploadedFileMap, inv, inv2, dlVars, scan>>

\* One pass through the loop body of combineByMediaID or combineByDate ends:
\* the loop goes on when combineFiles returned nil, the command returns when
\* the filter or combineFiles returned an error.
CbReturn(op, inputs, output, goesOn) ==
    /\ outcomes' = Append(outcomes, [key |-> groups[idx].key, op |-> op, inputs |-> inputs,
                                     output |-> output])
    /\ idx' = idx + 1
    /\ pc' = IF goesOn THEN "loop" ELSE "failed"
    /\ ev' = [op |-> op, idx |-> idx]
    /\ UNCHANGED <<device, tzone, opts, inv, inv2, activeDownloads, delIssued, builds>>

CbAtGroup == pc = "loop" /\ idx <= Len(groups)

\* The group past the unsynced gate, with its input list and output name.
CbReady ==
    /\ CbAtGroup
    /\ ~groups[idx].err
    /\ ~HasUnsyncedFiles(groups[idx].files)

CbFiles == groups[idx].files

CbInputs == buildFFmpegInputList(CbFiles, IncomingDir)

CbOutput == generateOutputPath(CbFiles, flags.groupBy, outgoing)

\* The filter finds no record for the key.
CbNoMatch ==
    /\ CbAtGroup
    /\ groups[idx].err
    /\ CbReturn("no-match", <<>>, <<>>, FALSE)
    /\ UNCHANGED <<incoming, outgoing>>

CbSkip ==
    /\ CbAtGroup
    /\ ~groups[idx].err
    /\ HasUnsyncedFiles(CbFiles)
    /\ CbReturn("skipped", <<>>, <<>>, TRUE)
    /\ UNCHANGED <<incoming, outgoing>>

\* ffmpeg ends with an error, having written nothing or an empty file.
CbFFmpegFail ==
    /\ CbReady
    /\ \/ UNCHANGED outgoing
       \/ outgoing' = Put(outgoing, CbOutput, [size |-> 0, mtime |-> Now])
    /\ CbReturn("ffmpeg-failed", CbInputs, CbOutput, FALSE)
    /\ UNCHANGED incoming

CbMtimeFail ==
    /\ CbReady
    /\ \E w \in OutSizes(TotalSize(CbFiles)) :
        outgoing' = Put(outgoing, CbOutput, [size |-> w, mtime |-> Now])
    /\ CbReturn("mtime-failed", CbInputs, CbOutput, FALSE)
    /\ UNCHANGED incoming

CbVerifyFail ==
    /\ CbReady
    /\ \E w \in OutSizes(TotalSize(CbFiles)) :
        /\ ~VerifySize(w, TotalSize(CbFiles), 1)
        /\ outgoing' = Put(outgoing, CbOutput, [size |-> w, mtime |-> CbFiles[1].CreatedAt])
    /\ CbReturn("verify-failed", CbInputs, CbOutput, FALSE)
    /\ UNCHANGED incoming

\* The output is written; its size is not looked at.
CbVerifiedUnchecked ==
    /\ CbReady
    /\ \E w \in OutSizes(TotalSize(CbFiles)) :
        outgoing' = Put(outgoing, CbOutput, [size |-> w, mtime |-> CbFiles[1].CreatedAt])

\* The output is written and verified.
CbVerified ==
    /\ CbReady
    /\ \E w \in OutSizes(TotalSize(CbFiles)) :
        /\ VerifySize(w, TotalSize(CbFiles), 1)
        /\ outgoing' = Put(outgoing, CbOutput, [size |-> w, mtime |-> CbFiles[1].CreatedAt])

CbKeep ==
    /\ CbVerified
    /\ flags.keepOriginal
    /\ CbReturn("kept", CbInputs, CbOutput, TRUE)
    /\ UNCHANGED incoming

\* The incoming directory after os.Remove of the first k files of the group.
RECURSIVE RemoveFirst(_, _, _)
RemoveFirst(dirFiles, files, k) ==
    IF k = 0 THEN dirFiles
    ELSE Drop(RemoveFirst(dirFiles, files, k - 1), files[k].Filename)

CbDeleteOK ==
    /\ CbVerified
    /\ ~flags.keepOriginal
    /\ incoming' = RemoveFirst(incoming, CbFiles, Len(CbFiles))
    /\ CbReturn("combined", CbInputs, CbOutput, TRUE)

\* os.Remove fails at file k + 1 of the group.
CbDeleteFail ==
    /\ CbVerified
    /\ ~flags.keepOriginal
    /\ \E k \in 0..(Len(CbFiles) - 1) : incoming' = RemoveFirst(incoming, CbFiles, k)
    /\ CbReturn("delete-failed", CbInputs, CbOutput, FALSE)

CbDone ==
    /\ pc = "loop"
    /\ idx > Len(groups)
    /\ pc' = "done"
    /\ ev' = [op |-> "done"]
    /\ UNCHANGED <<world, opts, inv, inv2, idx, dlVars>>

CombineNext ==
    \/ CbBuild \/ CbOptions \/ CbNoMatch \/ CbSkip \/ CbFFmpegFail \/ CbMtimeFail \/ CbVerifyFail
    \/ CbKeep \/ CbDeleteOK \/ CbDeleteFail \/ CbDone

SpecCombine == CombineInit /\ [][CombineNext]_vars

(***************************************************************************)
(* Claims about the unsynced gate and the chapter order of combine.        *)
(***************************************************************************)
Unsynced(files) ==
    \E i \in DOMAIN files : files[i].Status \in {OnlyRemote, OutOfSync, Processed}

\* The incoming file of that name is as it was at the build.
Untouched(name) ==
    name \in DOMAIN builds[1].incoming =>
        name \in DOMAIN incoming /\ incoming[name] = builds[1].incoming[name]

\* C5: HasUnsyncedFiles is true exactly when some record is neither InSync nor
\* OnlyLocal; a group for which it is true is skipped: no input list goes to
\* ffmpeg, no output file is written for it, and its incoming files stay as
\* they were; the skip does not end the loop, and a run that reaches the end of
\* the loop has concatenated every group without unsynced files.
C5_UnsyncedGate ==
    /\ HasUnsyncedFiles(inv) <=> Unsynced(inv)
    /\ \A g \in DOMAIN groups : HasUnsyncedFiles(groups[g].files) <=> Unsynced(groups[g].files)
    /\ \A g \in DOMAIN outcomes :
        Unsynced(groups[g].files) =>
            /\ outcomes[g].op = "skipped"
            /\ outcomes[g].inputs = <<>>
            /\ outcomes[g].output = <<>>
            /\ \A i \in DOMAIN groups[g].files : Untouched(groups[g].files[i].Filename)
    /\ builds # <<>> =>
        DOMAIN outgoing \ DOMAIN builds[1].outgoing \subseteq
            {outcomes[g].output : g \in {h \in DOMAIN outcomes : ~Unsynced(groups[h].files)}}
    /\ ev.op = "skipped" => pc = "loop" /\ idx = ev.idx + 1
    /\ pc = "done" =>
        /\ Len(outcomes) = Len(groups)
        /\ \A g \in DOMAIN groups :
            ~Unsynced(groups[g].files) => outcomes[g].op \in {"combined", "kept"}

\* A run to the end of the loop that skipped a group holding a synced and an
\* unsynced chapter and then combined a later group.
C5_Witness ==
    /\ pc = "done"
    /\ \E g, h \in DOMAIN outcomes :
        /\ g < h
        /\ outcomes[g].op = "skipped"
        /\ \E i, j \in DOMAIN groups[g].files :
            /\ groups[g].files[i].Status = InSync
            /\ groups[g].files[j].Status \in {OnlyRemote, OutOfSync}
        /\ outcomes[h].op = "combined"
        /\ outcomes[h].output \in DOMAIN outgoing

\* The orderings of the set S, as sequences.
RECURSIVE Perms(_)
Perms(S) ==
    IF S = {} THEN {<<>>}
    ELSE UNION {{<<x>> \o q : q \in Perms(S \ {x})} : x \in S}

Permute(files, p) == [i \in DOMAIN files |-> files[p[i]]]

\* The positions in the inventory of the non-Processed records whose name
\* decodes to the media ID id, and the chapter number a name carries.
ChaptersOf(id) ==
    {i \in DOMAIN inv :
        /\ inv[i].Status # Processed
        /\ FilenameMatches(inv[i].Filename)
        /\ Atoi(SubSeq(inv[i].Filename, 5, 8)) = id}

ChapterNo(name) == Atoi(SubSeq(name, 3, 4))

CandidateIDs == {0, 7, 8}

\* C6: for every ordering of a built inventory, FilterByMediaID(id) returns
\* exactly the non-Processed records whose name decodes to id, by ascending
\* chapter number; and the input list handed to ffmpeg for a media ID names
\* exactly these files in ascending chapter order.
C6_ChapterOrder ==
    /\ ev.op = "build" =>
        \A orders \in {Perms(DOMAIN inv)}, id \in CandidateIDs :
            \A want \in {ChaptersOf(id)}, base \in {FilterByMediaID(inv, id).files} :
                \A p \in orders :
                    \A r \in {FilterByMediaID(Permute(inv, p), id).files} :
                        /\ Len(r) = Cardinality(want)
                        /\ Range(r) = {inv[i] : i \in want}
                        /\ \A a \in 1..(Len(r) - 1) :
                            ChapterNo(r[a].Filename) <= ChapterNo(r[a + 1].Filename)
                        /\ \A a \in DOMAIN r :
                            ChapterNo(r[a].Filename) = ChapterNo(base[a].Filename)
    /\ \A g \in DOMAIN outcomes :
        (flags.groupBy = "media-id" /\ outcomes[g].op \notin {"skipped", "no-match"}) =>
            \A inputs \in {outcomes[g].inputs}, want \in {ChaptersOf(outcomes[g].key)} :
                /\ Len(inputs) = Cardinality(want)
                /\ Range(inputs) = {<<IncomingDir, inv[i].Filename>> : i \in want}
                /\ \A a \in 1..(Len(inputs) - 1) :
                    ChapterNo(inputs[a][2]) <= ChapterNo(inputs[a + 1][2])

\* Three chapters that the inventory lists out of chapter order were
\* concatenated.
C6_Witness ==
    /\ flags.groupBy = "media-id"
    /\ \E g \in DOMAIN outcomes :
        /\ outcomes[g].op \in {"combined", "kept"}
        /\ Len(outcomes[g].inputs) = 3
        /\ \E i, j \in ChaptersOf(outcomes[g].key) :
            i < j /\ ChapterNo(inv[i].Filename) > ChapterNo(inv[j].Filename)

(***************************************************************************)
(* Claims about the order of the built inventory.                          *)
(***************************************************************************)
\* The byte value of a character of the sample names.
CharCode(c) ==
    CASE c = "." -> 46
      [] c \in Digits -> 48 + DigitVal(c)
      [] c = "G" -> 71 [] c = "H" -> 72 [] c = "M" -> 77 [] c = "P" -> 80
      [] c = "X" -> 88 [] c = "e" -> 101 [] c = "n" -> 110 [] c = "o" -> 111
      [] c = "s" -> 115 [] c = "t" -> 116 [] c = "x" -> 120

\* a sorts before b or equals it, byte by byte.
RECURSIVE NameLeq(_, _)
NameLeq(a, b) ==
    IF a = <<>> THEN TRUE
    ELSE IF b = <<>> THEN FALSE
    ELSE IF a[1] = b[1] THEN NameLeq(Tail(a), Tail(b))
    ELSE CharCode(a[1]) < CharCode(b[1])

\* C11: a built inventory ascends by CreatedAt, and records of equal CreatedAt
\* ascend by filename.
C11_SortedWithTieBreak ==
    pc # "start" =>
        \A i, j \in DOMAIN inv :
            i < j =>
                /\ inv[i].CreatedAt <= inv[j].CreatedAt
                /\ inv[i].CreatedAt = inv[j].CreatedAt
                    => NameLeq(inv[i].Filename, inv[j].Filename)

(***************************************************************************)
(* Failures of the build: Client.GetMediaList, getTimezoneOffset,          *)
(* scanLocalFiles and the early returns of NewInventory.                   *)
(***************************************************************************)
MaxScanFiles == 2

\* How a request to the camera ends: the transport fails, the status is not
\* 200, the body does not decode, or it succeeds.
RequestStates == {"ok", "get-failed", "bad-status", "decode-failed"}

\* How a local directory answers: it lists, it does not exist, it cannot be
\* read, or one of its entries cannot be examined.
DirStates == {"ok", "missing", "unreadable", "stat-failed"}

TzOffsets == {-60, 60}

ScanNames == {GH010007, NotesTxt}

ScanEntry == [d : {"100GOPRO"}, n : ScanNames, cre : Times, s : {1000}]

ScanInfo == [size : {1000}, mtime : Times]

ScanListings(r) == {s \in [1..r -> ScanEntry] : IsListing(s)}

ScanMaps(k) == UNION {[S -> ScanInfo] : S \in {T \in SUBSET ScanNames : Cardinality(T) = k}}

NilResult(err) == [isNil |-> TRUE, files |-> <<>>, err |-> err]

getTimezoneOffset(tz, state) ==
    IF state = "ok" THEN [tzOffset |-> tz, err |-> ""]
    ELSE [tzOffset |-> 0, err |-> state]

\* Client.GetMediaList with its error returns; the offset is asked for only
\* when the listing has content.
ClientGetMediaList(dev, tz, listState, tzState) ==
    IF listState # "ok" THEN NilResult(listState)
    ELSE IF Len(dev) # 0
         THEN IF getTimezoneOffset(tz, tzState).err # ""
              THEN NilResult("getting timezone offset")
              ELSE [isNil |-> FALSE,
                    files |-> adjustTimestamps(dev, getTimezoneOffset(tz, tzState).tzOffset),
                    err |-> ""]
         ELSE [isNil |-> FALSE, files |-> dev, err |-> ""]

\* scanLocalFiles with every failure swallowed.
scanLocalFilesLenient(state, files) ==
    [isNil |-> FALSE, files |-> files, err |-> ""]

scanLocalFiles(state, files) ==
    IF state \in {"missing", "unreadable"} THEN NilResult("reading directory")
    ELSE IF state = "stat-failed" THEN NilResult("stat file")
    ELSE [isNil |-> FALSE, files |-> files, err |-> ""]

\* getLocalFiles of the MediaInventory revision: the walk ignores what does
\* not exist.
getLocalFiles(state, files) ==
    IF state = "missing" THEN [isNil |-> FALSE, files |-> <<>>, err |-> ""]
    ELSE IF state \in {"unreadable", "stat-failed"} THEN NilResult("walking local directory")
    ELSE [isNil |-> FALSE, files |-> files, err |-> ""]

\* The directory states a directory with these files can be in.
DirStatesOf(files) ==
    {s \in DirStates : /\ s = "missing" => DOMAIN files = {}
                      /\ s = "stat-failed" => DOMAIN files # {}}

ScanInit ==
    /\ \E r, i, o \in 0..MaxScanFiles :
        /\ r + i + o <= MaxScanFiles
        /\ device \in ScanListings(r)
        /\ incoming \in ScanMaps(i)
        /\ outgoing \in ScanMaps(o)
    /\ tzone \in TzOffsets
    /\ faults \in {f \in [list : RequestStates, tz : RequestStates,
                         incomingDir : DirStates, outgoingDir : DirStates] :
                       /\ f.incomingDir \in DirStatesOf(incoming)
                       /\ f.outgoingDir \in DirStatesOf(outgoing)}
    /\ built = NoBuilt
    /\ call = NoCall
    /\ mdns = NoDiscovery
    /\ sig = NoSignal
    /\ flags = NoFlags
    /\ inv = <<>>
    /\ inv2 = <<>>
    /\ pc = "start"
    /\ idx = 0
    /\ ev = NoEvent
    /\ groups = <<>>
    /\ uploadedVideos = {}
    /\ uploadedFileMap = {}
    /\ activeDownloads = {}
    /\ outcomes = <<>>
    /\ delIssued = {}
    /\ builds = <<>>

ScanListed == ClientGetMediaList(device, tzone, faults.list, faults.tz)

ScanReturn(result, op) ==
    /\ pc = "start"
    /\ built' = result
    /\ inv' = result.files
    /\ pc' = "built"
    /\ ev' = [op |-> op]
    /\ UNCHANGED <<world, flags, uploadedVideos, uploadedFileMap, groups, faults, call,
                   mdns, sig, inv2, idx, dlVars>>

\* NewInventory returns at the failed listing.
ScanListFail ==
    /\ ScanListed.err # ""
    /\ ScanReturn(NilResult(ScanListed.err), "list-failed")

\* NewInventory returns at the failed scan of the incoming directory.
ScanIncomingFail ==
    /\ ScanListed.err = ""
    /\ scanLocalFiles(faults.incomingDir, incoming).err # ""
    /\ ScanReturn(NilResult(scanLocalFiles(faults.incomingDir, incoming).err), "incoming-failed")

\* NewInventory returns at the failed scan of the outgoing directory.
ScanOutgoingFail ==
    /\ ScanListed.err = ""
    /\ scanLocalFiles(faults.incomingDir, incoming).err = ""
    /\ scanLocalFiles(faults.outgoingDir, outgoing).err # ""
    /\ ScanReturn(NilResult(scanLocalFiles(faults.outgoingDir, outgoing).err), "outgoing-failed")

\* NewInventory processes the three sources and sorts.
ScanOK ==
    /\ ScanListed.err = ""
    /\ scanLocalFiles(faults.incomingDir, incoming).err = ""
    /\ scanLocalFiles(faults.outgoingDir, outgoing).err = ""
    /\ \E files \in NewInventory(device, tzone,
                                 scanLocalFiles(faults.incomingDir, incoming).files,
                                 scanLocalFiles(faults.outgoingDir, outgoing).files) :
        ScanReturn([isNil |-> FALSE, files |-> files, err |-> ""], "build")

ScanNext == ScanListFail \/ ScanIncomingFail \/ ScanOutgoingFail \/ ScanOK

SpecScan == ScanInit /\ [][ScanNext]_vars

\* The remote listing failed: the list request, or the offset request of a
\* listing with content.
ListingFailed == faults.list # "ok" \/ (Len(device) # 0 /\ faults.tz # "ok")

\* A directory scan failed for a reason other than the directory not existing.
ScanFailed(state) == state \in {"unreadable", "stat-failed"}

\* C12: when the remote listing or a scan of a local directory fails for a reason other than the
\* directory not existing, the build returns an error and no inventory; an inventory is never
\* returned together with an error.
C12_NoPartialInventory ==
    pc = "built" =>
        /\ (ListingFailed \/ ScanFailed(faults.incomingDir) \/ ScanFailed(faults.outgoingDir))
            => (built.isNil /\ built.err # "" /\ built.files = <<>>)
        /\ built.isNil <=> built.err # ""
        /\ built.isNil => built.files = <<>>

\* The listing succeeded with content and the incoming scan succeeded, the outgoing scan
\* failed.
C12_Witness ==
    /\ pc = "built"
    /\ Len(device) > 0
    /\ faults.list = "ok" /\ faults.tz = "ok" /\ faults.incomingDir = "ok"
    /\ faults.outgoingDir = "stat-failed"
    /\ built.isNil
    /\ built.err = "stat file"

\* C13: a scan of a directory that does not exist gives an empty mapping and no error, so a
\* build whose incoming or outgoing directory does not exist, with nothing else failing,
\* returns an inventory, and that inventory has no record from the missing directory.
C13_MissingDirIsEmpty ==
    (/\ pc = "built"
     /\ ~ListingFailed
     /\ ~ScanFailed(faults.incomingDir) /\ ~ScanFailed(faults.outgoingDir)
     /\ "missing" \in {faults.incomingDir, faults.outgoingDir})
    => /\ scanLocalFiles("missing", <<>>) = [isNil |-> FALSE, files |-> <<>>, err |-> ""]
       /\ ~built.isNil
       /\ built.err = ""
       /\ faults.incomingDir = "missing" =>
            \A i \in DOMAIN built.files : built.files[i].Status \in {OnlyRemote, Processed}
       /\ faults.outgoingDir = "missing" =>
            \A i \in DOMAIN built.files : built.files[i].Status # Processed

\* The same scan by getLocalFiles, the scanner of the MediaInventory revision.
GetLocalFilesTolerates ==
    /\ getLocalFiles("missing", <<>>) = [isNil |-> FALSE, files |-> <<>>, err |-> ""]
    /\ \A s \in DirStates \ {"missing"} : getLocalFiles(s, incoming) = scanLocalFiles(s, incoming)
       \/ getLocalFiles(s, incoming).err # ""

\* C14: every file of a listing with content that GetMediaList returns carries the device's
\* creation time minus the timezone offset in minutes, taken off once; the inventory is sorted
\* and grouped by date on that value; a listing with content whose offset request fails is
\* not returned.
C14_TimezoneApplied ==
    /\ (faults.list = "ok" /\ Len(device) # 0) =>
        IF faults.tz = "ok"
        THEN /\ ~ScanListed.isNil
             /\ Len(ScanListed.files) = Len(device)
             /\ \A i \in DOMAIN device :
                    ScanListed.files[i].cre = device[i].cre - tzone * SecondsPerMinute
        ELSE ScanListed.isNil /\ ScanListed.err # ""
    /\ (pc = "built" /\ ~built.isNil) =>
        /\ \A i \in DOMAIN device :
            \E j \in DOMAIN built.files :
                /\ built.files[j].Filename = device[i].n
                /\ built.files[j].Status # Processed
                /\ built.files[j].CreatedAt = device[i].cre - tzone * SecondsPerMinute
                /\ DayOf(device[i].cre - tzone * SecondsPerMinute)
                       \in Range(UniqueDates(built.files))
        /\ \A i, j \in DOMAIN built.files :
            i < j => built.files[i].CreatedAt <= built.files[j].CreatedAt

\* A remote file that the device dates after a local file and on the next day is listed
\* before it and on the local file's day once the offset is taken off.
C14_Witness ==
    /\ pc = "built"
    /\ ~built.isNil
    /\ Len(built.files) = 2
    /\ Len(device) = 1
    /\ tzone = 60
    /\ built.files[1].Status = OnlyRemote
    /\ built.files[2].Status = OnlyLocal
    /\ device[1].cre > built.files[2].CreatedAt
    /\ DayOf(device[1].cre) # DayOf(built.files[1].CreatedAt)
    /\ Len(UniqueDates(built.files)) = 1

(***************************************************************************)
(* generateDisplayInfo and FilterByDisplayInfo.  A display string is the   *)
(* sequence of its characters.                                             *)
(***************************************************************************)
\* Status.Symbol: one character each; the two guillemets are written by name.
Symbol(status) ==
    CASE status = OnlyRemote -> <<"laquo">>
      [] status = OnlyLocal -> <<"raquo">>
      [] status = InSync -> <<"=">>
      [] status = OutOfSync -> <<"!">>
      [] status = Processed -> <<"^">>

\* Status.String
StatusString(status) ==
    CASE status = OnlyRemote -> <<"o", "n", "l", "y", " ", "s", "t", "o", "r", "e", "d", " ", "o", "n", " ", "g", "o", "p", "r", "o">>
      [] status = OnlyLocal -> <<"o", "n", "l", "y", " ", "s", "t", "o", "r", "e", "d", " ", "o", "n", " ", "l", "o", "c", "a", "l">>
      [] status = InSync -> <<"s", "a", "v", "e", "d", " ", "o", "n", " ", "a", "l", "l", " ", "d", "e", "v", "i", "c", "e", "s">>
      [] status = OutOfSync -> <<"S", "I", "Z", "E", "S", " ", "A", "R", "E", " ", "M", "I", "S", "M", "A", "T", "C", "H", "E", "D">>
      [] status = Processed -> <<"r", "e", "a", "d", "y", " ", "f", "o", "r", " ", "p", "u", "b", "l", "i", "s", "h", "i", "n", "g">>

Spaces(n) == [i \in 1..n |-> " "]

\* %Ns: right-aligned in a field of the given width.
PadLeft(s, width) == IF Len(s) >= width THEN s ELSE Spaces(width - Len(s)) \o s

\* %02d
Pad2(n) == IF n < 10 THEN <<"0">> \o Itoa(n) ELSE Itoa(n)

\* humanize.Bytes for sizes below one megabyte: bytes below 1000, otherwise
\* kilobytes rounded to a tenth, written with one decimal below 10 and with
\* none (rounded half to even) from 10 on.
HumanBytes(size) ==
    IF size < 1000 THEN Itoa(size) \o <<" ", "B">>
    ELSE LET tenths == (size + 50) \div 100
             whole == tenths \div 10
             frac == tenths % 10
             rounded == IF frac > 5 \/ (frac = 5 /\ whole % 2 = 1) THEN whole + 1 ELSE whole
         IN  IF tenths < 100
             THEN Itoa(whole) \o <<".">> \o Itoa(frac) \o <<" ", "k", "B">>
             ELSE Itoa(rounded) \o <<" ", "k", "B">>

\* CreatedAt.Format(time.DateTime) for instants of January 1970.
FormatDateTime(t) ==
    LET day == t \div SecondsPerDay
        rest == t % SecondsPerDay
    IN  <<"1", "9", "7", "0", "-", "0", "1", "-">> \o Pad2(day + 1) \o <<" ">>
        \o Pad2(rest \div 3600) \o <<":">> \o Pad2((rest % 3600) \div 60) \o <<":">>
        \o Pad2(rest % 60)

\* The directory names of the model as characters; path.Base of a plain name
\* is the name.
DirChars(dir) ==
    CASE dir = "100GOPRO" -> <<"1", "0", "0", "G", "O", "P", "R", "O">>
      [] dir = "101GOPRO" -> <<"1", "0", "1", "G", "O", "P", "R", "O">>
      [] dir = "incoming" -> <<"i", "n", "c", "o", "m", "i", "n", "g">>
      [] dir = "outgoing" -> <<"o", "u", "t", "g", "o", "i", "n", "g">>

displayDir(file) ==
    IF file.Status = OnlyRemote THEN <<" ", "p", "e", "n", "d", "i", "n", "g">>
    ELSE IF file.Status = InSync THEN <<"i", "n", "c", "o", "m", "i", "n", "g">>
    ELSE DirChars(file.Directory)

generateDisplayInfo(file) ==
    Symbol(file.Status) \o Spaces(2) \o StatusString(file.Status) \o Spaces(1)
    \o PadLeft(HumanBytes(file.Size), 8) \o Spaces(2)
    \o PadLeft(FormatDateTime(file.CreatedAt), 20) \o Spaces(2)
    \o displayDir(file) \o <<" ", "/", " ">> \o file.Filename

ToLowerChar(c) ==
    CASE c = "A" -> "a"
      [] c = "B" -> "b"
      [] c = "C" -> "c"
      [] c = "D" -> "d"
      [] c = "E" -> "e"
      [] c = "F" -> "f"
      [] c = "G" -> "g"
      [] c = "H" -> "h"
      [] c = "I" -> "i"
      [] c = "J" -> "j"
      [] c = "K" -> "k"
      [] c = "L" -> "l"
      [] c = "M" -> "m"
      [] c = "N" -> "n"
      [] c = "O" -> "o"
      [] c = "P" -> "p"
      [] c = "Q" -> "q"
      [] c = "R" -> "r"
      [] c = "S" -> "s"
      [] c = "T" -> "t"
      [] c = "U" -> "u"
      [] c = "V" -> "v"
      [] c = "W" -> "w"
      [] c = "X" -> "x"
      [] c = "Y" -> "y"
      [] c = "Z" -> "z"
      [] OTHER -> c

\* strings.ToLower
ToLower(s) == [i \in DOMAIN s |-> ToLowerChar(s[i])]

\* strings.Contains
Contains(haystack, needle) ==
    \E k \in 0..(Len(haystack) - Len(needle)) :
        SubSeq(haystack, k + 1, k + Len(needle)) = needle

MatchesAny(file, keywords) ==
    \E haystack \in {ToLower(generateDisplayInfo(file))} :
        \E k \in DOMAIN keywords : Contains(haystack, ToLower(keywords[k]))

\* FilterByDisplayInfo with one append per matching keyword: the loop over
\* the keywords without its break.
CopiesPerKeyword(file, keywords) ==
    [i \in 1..Cardinality({k \in DOMAIN keywords :
                             Contains(ToLower(generateDisplayInfo(file)), ToLower(keywords[k]))})
        |-> file]

RECURSIVE KeepPerKeyword(_, _)
KeepPerKeyword(files, keywords) ==
    IF files = <<>> THEN <<>>
    ELSE KeepPerKeyword(Front(files), keywords) \o CopiesPerKeyword(Last(files), keywords)

FilterByDisplayInfoNoBreak(files, keywords) ==
    IF Len(keywords) = 0 THEN [isNil |-> FALSE, files |-> files, err |-> FALSE]
    ELSE LET kept == KeepPerKeyword(files, keywords)
         IN  IF Len(kept) = 0 THEN [isNil |-> TRUE, files |-> <<>>, err |-> TRUE]
             ELSE [isNil |-> FALSE, files |-> kept, err |-> FALSE]

\* FilterByDisplayInfo without its NoMatch return.
FilterByDisplayInfoNoError(files, keywords) ==
    [isNil |-> FALSE,
     files |-> IF Len(keywords) = 0 THEN files
               ELSE SelectSeq(files, LAMBDA f : MatchesAny(f, keywords)),
     err |-> FALSE]

FilterByDisplayInfo(files, keywords) ==
    IF Len(keywords) = 0 THEN [isNil |-> FALSE, files |-> files, err |-> FALSE]
    ELSE LET kept == SelectSeq(files, LAMBDA f : MatchesAny(f, keywords))
         IN  IF Len(kept) = 0 THEN [isNil |-> TRUE, files |-> <<>>, err |-> TRUE]
             ELSE [isNil |-> FALSE, files |-> kept, err |-> FALSE]

(***************************************************************************)
(* The filter and key methods of Inventory applied to built inventories.   *)
(***************************************************************************)
MaxFlFiles == 3

MaxKeywords == 2

FlDays == {0, 1, 2}

KwGH01 == <<"G", "H", "0", "1">>
KwSaved == <<"S", "a", "v", "e", "d">>
KwNowhere == <<"z", "z", "z">>

Keywords == {KwGH01, KwSaved, KwNowhere}

\* The keyword lists that name no keyword twice.
KeywordLists ==
    UNION {{l \in [1..n -> Keywords] : \A i, j \in 1..n : i # j => l[i] # l[j]} :
              n \in 0..MaxKeywords}

FlNames == {GH010007, GX010008, NotesTxt}

FlEntry == [d : {"100GOPRO"}, n : FlNames, cre : Times, s : {1000}]

FlInfo == [size : {1000}, mtime : Times]

FlListings(r) == {s \in [1..r -> FlEntry] : IsListing(s)}

FlMaps(names, k) == UNION {[S -> FlInfo] : S \in {T \in SUBSET names : Cardinality(T) = k}}

FilterInit ==
    /\ \E r, i, o \in 0..MaxFlFiles :
        /\ r + i + o <= MaxFlFiles
        /\ device \in FlListings(r)
        /\ incoming \in FlMaps(FlNames, i)
        /\ outgoing \in FlMaps({GH010007}, o)
    /\ tzone = 0
    /\ flags = NoFlags
    /\ inv = <<>>
    /\ inv2 = <<>>
    /\ pc = "start"
    /\ idx = 0
    /\ ev = NoEvent
    /\ DlIdle

FlBuild ==
    /\ pc = "start"
    /\ inv' \in NewInventory(device, tzone, incoming, outgoing)
    /\ pc' = "built"
    /\ ev' = [op |-> "build"]
    /\ UNCHANGED <<world, opts, inv2, idx, dlVars>>

\* A method of the built inventory is called; the inventory itself stays as it is.
FlCall(result) ==
    /\ pc = "built"
    /\ call' = result
    /\ pc' = "called"
    /\ ev' = [op |-> result.op]
    /\ UNCHANGED <<world, flags, uploadedVideos, uploadedFileMap, groups, faults, built,
                   mdns, sig, inv, inv2, idx, dlVars>>

FlFilterByDate ==
    /\ pc = "built"
    /\ \E day \in FlDays :
        \E r \in {FilterByDate(inv, day)} :
            FlCall([op |-> "FilterByDate", arg |-> day,
                    isNil |-> r.err, files |-> r.files, err |-> r.err])

FlFilterByMediaID ==
    /\ pc = "built"
    /\ \E mediaID \in CandidateIDs :
        \E r \in {FilterByMediaID(inv, mediaID)} :
            FlCall([op |-> "FilterByMediaID", arg |-> mediaID,
                    isNil |-> r.err, files |-> r.files, err |-> r.err])

FlFilterByDisplayInfo ==
    /\ pc = "built"
    /\ \E keywords \in KeywordLists :
        \E r \in {FilterByDisplayInfo(inv, keywords)} :
            FlCall([op |-> "FilterByDisplayInfo", arg |-> keywords,
                    isNil |-> r.isNil, files |-> r.files, err |-> r.err])

FlMediaIDs == FlCall([op |-> "MediaIDs", keys |-> MediaIDs(inv)])

FlUniqueDates == FlCall([op |-> "UniqueDates", keys |-> UniqueDates(inv)])

FilterNext ==
    \/ FlBuild
    \/ FlFilterByDate
    \/ FlFilterByMediaID
    \/ FlFilterByDisplayInfo
    \/ FlMediaIDs
    \/ FlUniqueDates

SpecFilter == FilterInit /\ [][FilterNext]_vars

OnDay(day) == {i \in DOMAIN inv : inv[i].CreatedAt \div SecondsPerDay = day}

\* C15: FilterByDate(d) returns exactly the records of day d whose status is not Processed,
\* in inventory order; no Processed record is in the result.
C15_FilterByDate ==
    call.op = "FilterByDate" =>
        /\ call.files = Pick(inv, {i \in OnDay(call.arg) : inv[i].Status # Processed})
        /\ \A k \in DOMAIN call.files : call.files[k].Status # Processed

\* A Processed record and another record share the day; only the other is returned.
C15_Witness ==
    /\ call.op = "FilterByDate"
    /\ \E i, j \in OnDay(call.arg) : inv[i].Status = Processed /\ inv[j].Status = InSync
    /\ Len(call.files) = 1
    /\ call.files[1].Status = InSync

\* Whether some record of the inventory matches the argument of the called filter.
SomeMatch ==
    CASE call.op = "FilterByDate" ->
            \E i \in OnDay(call.arg) : inv[i].Status # Processed
      [] call.op = "FilterByMediaID" -> ChaptersOf(call.arg) # {}
      [] call.op = "FilterByDisplayInfo" ->
            \E i \in DOMAIN inv : \E haystack \in {ToLower(generateDisplayInfo(inv[i]))} :
                \E k \in DOMAIN call.arg : Contains(haystack, ToLower(call.arg[k]))

IsFilterCall ==
    \/ call.op \in {"FilterByDate", "FilterByMediaID"}
    \/ call.op = "FilterByDisplayInfo" /\ Len(call.arg) >= 1

\* C16: FilterByDate, FilterByMediaID and FilterByDisplayInfo with a keyword return the NoMatch
\* error and no inventory exactly when no record matches; a returned inventory is never empty.
C16_NoMatchIffEmpty ==
    IsFilterCall =>
        /\ call.err <=> ~SomeMatch
        /\ call.isNil <=> call.err
        /\ ~call.err => call.files # <<>>

\* A keyword that occurs in no record of an inventory with records.
C16_Witness ==
    /\ call.op = "FilterByDisplayInfo"
    /\ call.arg = <<KwNowhere>>
    /\ Len(inv) > 0
    /\ call.err
    /\ call.isNil

StrictlyAscending(s) == \A i, j \in DOMAIN s : i < j => s[i] < s[j]

Unprocessed == {i \in DOMAIN inv : inv[i].Status # Processed}

\* The media IDs that names of non-Processed records decode to.
DecodedIDs ==
    {Atoi(SubSeq(inv[i].Filename, 5, 8)) : i \in {j \in Unprocessed : FilenameMatches(inv[j].Filename)}}

\* C17: MediaIDs() and UniqueDates() return strictly ascending lists that hold exactly the
\* decoded media IDs, respectively the calendar days, of the non-Processed records.
C17_KeysExact ==
    /\ call.op = "MediaIDs" =>
        /\ StrictlyAscending(call.keys)
        /\ Range(call.keys) = DecodedIDs
    /\ call.op = "UniqueDates" =>
        /\ StrictlyAscending(call.keys)
        /\ Range(call.keys) = {inv[i].CreatedAt \div SecondsPerDay : i \in Unprocessed}

\* What MediaIDs() does return: the decoded IDs, and 0 once a non-Processed record has a name
\* that does not decode.
MediaIDsWithZero ==
    call.op = "MediaIDs" =>
        /\ StrictlyAscending(call.keys)
        /\ Range(call.keys) =
            DecodedIDs \cup {0 : i \in {j \in Unprocessed : ~FilenameMatches(inv[j].Filename)}}

\* The keywords of the list that occur in the record's display string.
KeywordsIn(file, keywords) ==
    UNION {{k \in DOMAIN keywords : Contains(haystack, ToLower(keywords[k]))} :
              haystack \in {ToLower(generateDisplayInfo(file))}}

\* C18: FilterByDisplayInfo with no keyword returns the inventory as it is and no error, also
\* for the empty inventory; with keywords it returns each matching record once, in inventory
\* order.
C18_DisplayInfoFilter ==
    call.op = "FilterByDisplayInfo" =>
        IF Len(call.arg) = 0
        THEN call.files = inv /\ ~call.err /\ ~call.isNil
        ELSE call.files = Pick(inv, {i \in DOMAIN inv : KeywordsIn(inv[i], call.arg) # {}})

\* A record in which both keywords of the list occur is returned once.
C18_Witness ==
    /\ call.op = "FilterByDisplayInfo"
    /\ Len(call.arg) = 2
    /\ \E i \in DOMAIN inv : Cardinality(KeywordsIn(inv[i], call.arg)) = 2
    /\ Len(call.files) = 1

\* The call without keywords on the inventory without records.
PassThroughOfEmpty ==
    /\ call.op = "FilterByDisplayInfo"
    /\ call.arg = <<>>
    /\ inv = <<>>
    /\ ~call.err

(***************************************************************************)
(* findGoPro (internal/gopro/discovery.go): the retry loop of the sender   *)
(* and the listener goroutine, interleaved.                                *)
(***************************************************************************)
MaxPackets == 2

\* for range 3
MaxSends == 3

NoIP == "none"

IPs == {"10.5.5.9", "172.20.1.51"}

\* What the socket can hand to the listener: bytes that do not unpack, a
\* message without an A record, a message with one.
Packets == {[kind |-> "junk", ip |-> NoIP], [kind |-> "no-a-record", ip |-> NoIP]}
           \cup {[kind |-> "answer", ip |-> a] : a \in IPs}

\* Where the listener goes once it has sent the address: on to the close.
ListenerAfterAnswerReturns == "done"

ListenerAfterAnswer == "close"

DiscoveryInit ==
    /\ mdns = [pc |-> "start", i |-> 0, sent |-> 0, lpc |-> "none", got |-> NoIP,
               resultChan |-> <<>>, closes |-> 0, connClosed |-> FALSE,
               ret |-> [ip |-> NoIP, err |-> ""], inbox |-> <<>>, delivered |-> 0]
    /\ sig = NoSignal
    /\ device = <<>>
    /\ incoming = <<>>
    /\ outgoing = <<>>
    /\ tzone = 0
    /\ flags = NoFlags
    /\ inv = <<>>
    /\ inv2 = <<>>
    /\ pc = "start"
    /\ idx = 0
    /\ ev = NoEvent
    /\ faults = NoFaults
    /\ built = NoBuilt
    /\ call = NoCall
    /\ groups = <<>>
    /\ uploadedVideos = {}
    /\ uploadedFileMap = {}
    /\ activeDownloads = {}
    /\ outcomes = <<>>
    /\ delIssued = {}
    /\ builds = <<>>

MdStep(next, op) ==
    /\ mdns' = next
    /\ ev' = [op |-> op]
    /\ UNCHANGED <<world, flags, uploadedVideos, uploadedFileMap, groups, faults, built, call,
                   sig, inv, inv2, pc, idx, dlVars>>

\* findGoPro returns; the deferred conn.Close() runs.
MdReturn(ip, err, op) ==
    MdStep([mdns EXCEPT !.pc = "returned", !.ret = [ip |-> ip, err |-> err],
                        !.connClosed = TRUE], op)

\* The address resolves, the socket opens, the query packs; the channels are
\* made and the listener is started.
MdOpen ==
    /\ mdns.pc = "start"
    /\ MdStep([mdns EXCEPT !.pc = "select", !.i = 1, !.lpc = "read"], "open")

\* One of the three fails: findGoPro returns before there is a listener.
MdOpenFail ==
    /\ mdns.pc = "start"
    /\ \E err \in {"failed to resolve multicast address", "failed to open UDP socket",
                   "failed to pack message"} :
        MdStep([mdns EXCEPT !.pc = "returned", !.ret = [ip |-> NoIP, err |-> err],
                            !.connClosed = (err = "failed to pack message")], "open-failed")

\* The loop with a select that has no timer case: it waits for an address.
MdInLoopBlocked == mdns.pc = "select" /\ mdns.i <= MaxSends /\ mdns.resultChan # <<>>

MdInLoop == mdns.pc = "select" /\ mdns.i <= MaxSends

MdAdvance(m) == IF m.i = MaxSends THEN [m EXCEPT !.i = m.i + 1, !.pc = "final"]
                ELSE [m EXCEPT !.i = m.i + 1]

\* select: case ip := <-resultChan
MdRecv ==
    /\ MdInLoop
    /\ mdns.resultChan # <<>>
    /\ MdReturn(Head(mdns.resultChan), "", "recv")

\* select: case <-time.After(500ms), and the write succeeds.
MdSend ==
    /\ MdInLoop
    /\ MdStep(MdAdvance([mdns EXCEPT !.sent = mdns.sent + 1]), "send")

\* select: case <-time.After(500ms), and the write fails.
MdSendFail ==
    /\ MdInLoop
    /\ MdReturn(NoIP, "failed to send query", "send-failed")

\* select: case <-doneChan; its break leaves the select, not the loop.
MdDone ==
    /\ MdInLoop
    /\ mdns.closes > 0
    /\ MdStep(MdAdvance(mdns), "done")

\* The final select with its default.
MdFinal ==
    /\ mdns.pc = "final"
    /\ IF mdns.resultChan # <<>>
       THEN MdReturn(Head(mdns.resultChan), "", "final-recv")
       ELSE MdReturn(NoIP, "no response received after retries", "final-none")

\* The network hands a packet to the socket; an answer follows a query.
MdDeliver ==
    /\ mdns.lpc # "none"
    /\ ~mdns.connClosed
    /\ mdns.delivered < MaxPackets
    /\ \E p \in Packets :
        /\ p.kind = "answer" => mdns.sent > 0
        /\ MdStep([mdns EXCEPT !.inbox = Append(mdns.inbox, p),
                               !.delivered = mdns.delivered + 1], "deliver")

\* conn.ReadFrom returns a packet: the loop goes on unless it unpacks and
\* holds an A record.
ListenerRead ==
    /\ mdns.lpc = "read"
    /\ ~mdns.connClosed
    /\ mdns.inbox # <<>>
    /\ MdStep([mdns EXCEPT !.inbox = Tail(mdns.inbox),
                           !.lpc = IF Head(mdns.inbox).kind = "answer" THEN "send" ELSE "read",
                           !.got = Head(mdns.inbox).ip], "read")

\* conn.ReadFrom returns an error: the deadline has passed, the socket is
\* closed or the read failed.
ListenerReadFail ==
    /\ mdns.lpc = "read"
    /\ MdStep([mdns EXCEPT !.lpc = "close"], "read-failed")

\* resultChan <- a.A; the channel has room for one address.
ListenerSend ==
    /\ mdns.lpc = "send"
    /\ Len(mdns.resultChan) < 1
    /\ MdStep([mdns EXCEPT !.resultChan = Append(mdns.resultChan, mdns.got),
                           !.lpc = ListenerAfterAnswer], "answer")

\* close(doneChan); return
ListenerClose ==
    /\ mdns.lpc = "close"
    /\ MdStep([mdns EXCEPT !.closes = mdns.closes + 1, !.lpc = "done"], "close")

ListenerNext == ListenerRead \/ ListenerReadFail \/ ListenerSend \/ ListenerClose

DiscoveryNext ==
    \/ MdOpen
    \/ MdOpenFail
    \/ MdRecv
    \/ MdSend
    \/ MdSendFail
    \/ MdDone
    \/ MdFinal
    \/ MdDeliver
    \/ ListenerRead
    \/ ListenerReadFail
    \/ ListenerSend
    \/ ListenerClose

SpecDiscovery == DiscoveryInit /\ [][DiscoveryNext]_vars

\* The listener goroutine is scheduled, and its read returns by the deadline,
\* whatever the sender does.
SpecDiscoveryLive == SpecDiscovery /\ WF_vars(ListenerNext)

\* C19: the listener closes doneChan at most once, has closed it when it is done, and every
\* started listener comes to close it, after an answer as after a failed or timed-out read.
C19_ClosedExactlyOnce ==
    /\ [](mdns.closes <= 1 /\ (mdns.lpc = "done" => mdns.closes = 1))
    /\ [](mdns.lpc # "none" => <>(mdns.lpc = "done" /\ mdns.closes = 1))

\* The listener has closed doneChan after it sent an answer.
C19_Witness ==
    /\ mdns.lpc = "done"
    /\ mdns.closes = 1
    /\ mdns.resultChan # <<>>

\* The query is written at most three times.
QuerySentAtMostThrice == mdns.sent <= MaxSends

\* C20: the query is sent at most three times, and once the listener has read a valid answer
\* findGoPro, unless a write of the query fails, returns that address: it does not report that
\* no response was received.
C20_AnswerMeansSuccess ==
    /\ mdns.sent <= MaxSends
    /\ (mdns.pc = "returned" /\ mdns.got # NoIP /\ mdns.ret.err # "failed to send query")
        => mdns.ret = [ip |-> mdns.got, err |-> ""]

\* What does hold: an address that is in resultChan when the sender looks is returned, in the
\* loop or by the final check; an error is returned only past an empty resultChan.
AnswerInChannelIsReturned ==
    [][(mdns.pc # "returned" /\ mdns'.pc = "returned" /\ mdns.resultChan # <<>>
        /\ mdns'.ret.err # "failed to send query")
       => mdns'.ret = [ip |-> Head(mdns.resultChan), err |-> ""]]_vars

(***************************************************************************)
(* Termination of findGoPro.                                               *)
(***************************************************************************)
SenderNext == MdOpen \/ MdOpenFail \/ MdRecv \/ MdSend \/ MdSendFail \/ MdDone \/ MdFinal

\* The sender is scheduled and its 500 ms timer fires, so a select of the
\* loop always comes to take a case.
SpecDiscoveryTerm == SpecDiscovery /\ WF_vars(SenderNext)

\* What findGoPro returns when it gives up, and what the explicit-host path
\* returns when the name does not resolve.
DiscoveryErrors == {"failed to resolve multicast address", "failed to open UDP socket",
                    "failed to pack message", "failed to send query",
                    "no response received after retries"}

ResolutionErrors == {"failed to resolve hostname", "no IPv4 address found"}

\* C21: findGoPro returns in every execution, after at most three passes of the loop; when the
\* listener has read no valid answer it returns an error and no address, the error is none of
\* the resolution errors, and once the loop has run out it is the no-response error.
C21_Terminates ==
    /\ <>(mdns.pc = "returned")
    /\ [](mdns.i <= MaxSends + 1)
    /\ []((mdns.pc = "returned" /\ mdns.got = NoIP) =>
            /\ mdns.ret.ip = NoIP
            /\ mdns.ret.err \in DiscoveryErrors \ ResolutionErrors
            /\ mdns.i > MaxSends => mdns.ret.err = "no response received after retries")

\* Three queries were written, the listener is still reading, and the final check gave up.
C21_Witness ==
    /\ mdns.pc = "returned"
    /\ mdns.sent = MaxSends
    /\ mdns.got = NoIP
    /\ mdns.lpc = "read"
    /\ mdns.ret.err = "no response received after retries"

(***************************************************************************)
(* resolveGoPro, resolveHost and resolveIPv4 (internal/gopro/discovery.go).*)
(***************************************************************************)
DefaultPort == "8080"

Schemes == {"", "http", "https", "ftp"}

Ports == {"", "8080", "9000"}

HostNames == {"gopro.local"}

\* A configured host: nothing, an address or a name with an optional port, or
\* text that url.Parse rejects.
Hosts == {[kind |-> "empty", hostname |-> "", port |-> ""],
          [kind |-> "malformed", hostname |-> "", port |-> ""]}
         \cup [kind : {"ip"}, hostname : IPs, port : Ports]
         \cup [kind : {"name"}, hostname : HostNames, port : Ports]

Addr == [v4 : BOOLEAN, addr : IPs \cup {"fe80::1"}]

IsAddr(a) == a.v4 <=> a.addr \in IPs

MaxAddrs == 2

\* What net.LookupIP answers: an error, or the addresses of the name in order.
Lookups == {[err |-> TRUE, ips |-> <<>>]}
           \cup {[err |-> FALSE, ips |-> l] :
                   l \in UNION {{x \in [1..n -> Addr] : \A i \in 1..n : IsAddr(x[i])} :
                                   n \in 0..MaxAddrs}}

resolveIPv4(lookup) ==
    IF lookup.err THEN [ip |-> NoIP, err |-> "failed to resolve hostname"]
    ELSE IF \A i \in DOMAIN lookup.ips : ~lookup.ips[i].v4
         THEN [ip |-> NoIP, err |-> "no IPv4 address found"]
         ELSE [ip |-> lookup.ips[CHOOSE i \in DOMAIN lookup.ips :
                                     /\ lookup.ips[i].v4
                                     /\ \A j \in 1..(i - 1) : ~lookup.ips[j].v4].addr,
               err |-> ""]

HostError(err) == [host |-> "", port |-> "", err |-> err]

\* found is what findGoPro returns: an address, or NoIP with its error.
resolveHost(host, lookup, found) ==
    IF host.kind = "empty"
    THEN IF found = NoIP THEN HostError("auto-discovery failed")
         ELSE [host |-> found, port |-> DefaultPort, err |-> ""]
    ELSE IF host.kind = "malformed" THEN HostError("invalid host format")
    ELSE IF host.kind = "name" /\ resolveIPv4(lookup).err # ""
         THEN HostError(resolveIPv4(lookup).err)
         ELSE [host |-> IF host.kind = "name" THEN resolveIPv4(lookup).ip ELSE host.hostname,
               port |-> host.port, err |-> ""]

NoURL(err, cause) == [isNil |-> TRUE, scheme |-> "", host |-> "", port |-> "", err |-> err,
                      cause |-> cause]

resolveGoPro(host, scheme, lookup, found) ==
    LET s == IF scheme = "" THEN "http" ELSE scheme
    IN  IF s # "http" /\ s # "https" THEN NoURL("invalid scheme", "")
        ELSE IF resolveHost(host, lookup, found).err # ""
             THEN NoURL("could not resolve GoPro address", resolveHost(host, lookup, found).err)
             ELSE [isNil |-> FALSE, scheme |-> s, host |-> resolveHost(host, lookup, found).host,
                   port |-> resolveHost(host, lookup, found).port, err |-> "", cause |-> ""]

ResolveInit ==
    /\ call \in [op : {"resolveGoPro"}, host : Hosts, scheme : Schemes, lookup : Lookups,
                 found : IPs \cup {NoIP}, done : {FALSE}, url : {NoURL("", "")}]
    /\ mdns = NoDiscovery
    /\ sig = NoSignal
    /\ device = <<>>
    /\ incoming = <<>>
    /\ outgoing = <<>>
    /\ tzone = 0
    /\ flags = NoFlags
    /\ inv = <<>>
    /\ inv2 = <<>>
    /\ pc = "start"
    /\ idx = 0
    /\ ev = NoEvent
    /\ faults = NoFaults
    /\ built = NoBuilt
    /\ groups = <<>>
    /\ uploadedVideos = {}
    /\ uploadedFileMap = {}
    /\ activeDownloads = {}
    /\ outcomes = <<>>
    /\ delIssued = {}
    /\ builds = <<>>

RsReturn(op) ==
    /\ pc = "start"
    /\ call' = [call EXCEPT !.done = TRUE,
                            !.url = resolveGoPro(call.host, call.scheme, call.lookup, call.found)]
    /\ pc' = "called"
    /\ ev' = [op |-> op]
    /\ UNCHANGED <<world, flags, uploadedVideos, uploadedFileMap, groups, faults, built, mdns, sig,
                   inv, inv2, idx, dlVars>>

\* NewClient gets a base address.
RsResolved ==
    /\ ~resolveGoPro(call.host, call.scheme, call.lookup, call.found).isNil
    /\ RsReturn("resolved")

\* NewClient gets an error.
RsFailed ==
    /\ resolveGoPro(call.host, call.scheme, call.lookup, call.found).isNil
    /\ RsReturn("failed")

ResolveNext == RsResolved \/ RsFailed

SpecResolve == ResolveInit /\ [][ResolveNext]_vars

\* The first IPv4 address of the lookup's answer, NoIP when it has none.
FirstIPv4(lookup) ==
    IF lookup.err \/ \A i \in DOMAIN lookup.ips : lookup.ips[i].addr \notin IPs THEN NoIP
    ELSE lookup.ips[CHOOSE i \in DOMAIN lookup.ips :
                       /\ lookup.ips[i].addr \in IPs
                       /\ \A j \in DOMAIN lookup.ips : j < i => lookup.ips[j].addr \notin IPs].addr

\* The scheme and the address of a returned base address, and the failure of a name
\* without an IPv4 address (with a resolution error when the scheme is accepted).
ResolvedAddress ==
    call.done =>
        /\ ~call.url.isNil =>
            /\ call.url.scheme = (IF call.scheme = "" THEN "http" ELSE call.scheme)
            /\ call.host.kind = "ip" => call.url.host = call.host.hostname
            /\ call.host.kind = "name" => call.url.host = FirstIPv4(call.lookup)
            /\ call.host.kind = "empty" => call.url.host = call.found
            /\ call.url.host # NoIP
        /\ (call.host.kind = "name" /\ FirstIPv4(call.lookup) = NoIP) =>
            /\ call.url.isNil
            /\ call.scheme \in {"", "http", "https"} => call.url.cause \in ResolutionErrors

\* C22: a returned base address has the given scheme, or http when none was given; its host is
\* the literal address, the first IPv4 address of the name or the discovered address, and
\* carries the given port, or the default port when none was given; a name without an IPv4
\* address fails with a resolution error.
C22_BaseAddress ==
    /\ ResolvedAddress
    /\ (call.done /\ ~call.url.isNil) =>
        call.url.port = (IF call.host.port # "" THEN call.host.port ELSE DefaultPort)

\* What holds of the port: the given one is kept, the default is filled in for a discovered
\* address only, and a host given without a port gets none.
PortAsGiven ==
    (call.done /\ ~call.url.isNil) =>
        call.url.port = (IF call.host.kind = "empty" THEN DefaultPort ELSE call.host.port)

\* ---------------------------------------------------------------------------
\* The batch loops and a failing item.

\* downloadInventory and uploadVideos leave their loop only past the last
\* record: every record of the inventory has an outcome when the command ends.
LoopRunsToEnd == pc = "done" => Len(outcomes) = Len(inv)

\* Some item of the download or publish loop failed and a later one was
\* still handled.
LoopWentOnAfterFailure ==
    /\ pc = "done"
    /\ \E i \in 1..Len(outcomes) : \E j \in (i + 1)..Len(outcomes) :
        /\ outcomes[i] \in {"get-failed", "copy-failed", "mtime-failed", "verify-failed",
                            "open-failed", "upload-failed"}
        /\ outcomes[j] # "skipped"

\* C23: the batch loops attempt every eligible item or group; a failure on
\* one does not stop the loop.  For combine: when the command has ended,
\* every key listed by combineByMediaID or combineByDate has been handled.
C23_EveryGroupAttempted == pc \in {"done", "failed"} => Len(outcomes) = Len(groups)

(***************************************************************************)
(* The download command and its interrupt handler (cmd/download.go).       *)
(* handleInterrupt starts a goroutine that waits for SIGINT or SIGTERM,    *)
(* removes every path of activeDownloads, switches turbo transfer off and  *)
(* exits.  The main goroutine goes on running downloadInventory meanwhile, *)
(* so the steps of DownloadMediaFile and of the remote delete are taken    *)
(* one by one here.  sig.visited are the keys the range loop has produced, *)
(* sig.start the keys of the map when the loop began, sig.removed the      *)
(* files os.Remove took away with the place the download was at, sig.at    *)
(* the place the main goroutine was at when the process ended.             *)
(***************************************************************************)

\* The process is running: neither returned from runDownload nor exited.
Alive == pc \notin {"done", "exited"}

\* os.Create: the file exists and is empty.
ItCreate ==
    /\ pc = "transfer"
    /\ OnDevice(device, inv[idx].Directory, inv[idx].Filename)
    /\ incoming' = Put(incoming, inv[idx].Filename, [size |-> 0, mtime |-> Now])
    /\ pc' = "copying"
    /\ ev' = [op |-> "created", idx |-> idx]
    /\ UNCHANGED <<device, tzone, outgoing, opts, inv, inv2, idx, dlVars>>

\* What io.Copy leaves under the path: the bytes written when the path still
\* names the open file, nothing when the file was removed meanwhile.
Written(w) ==
    IF inv[idx].Filename \in DOMAIN incoming
    THEN Put(incoming, inv[idx].Filename, [size |-> w, mtime |-> Now])
    ELSE incoming

\* io.Copy ends with an error: a read error of the body, or the context was
\* cancelled (return ctx.Err()).  The file is closed and stays.
ItCopyFail ==
    /\ pc = "copying"
    /\ \E w \in PartialSizes(inv[idx].Size) : incoming' = Written(w)
    /\ \E cause \in {"copy-failed", "cancelled"} : DlReturn(cause)
    /\ UNCHANGED <<device, tzone, outgoing, opts, inv, inv2, delIssued, builds>>

ItCopyOK ==
    /\ pc = "copying"
    /\ \E w \in ServedSizes(inv[idx].Size) : incoming' = Written(w)
    /\ pc' = "mtime"
    /\ ev' = [op |-> "copied", idx |-> idx]
    /\ UNCHANGED <<device, tzone, outgoing, opts, inv, inv2, idx, dlVars>>

\* DeleteSingleMediaFile: the device has deleted the file, the call has not
\* returned yet.
ItDeleteSent ==
    /\ pc = "verified"
    /\ ~flags.keepOriginal
    /\ device' = RemoveEntry(device, inv[idx].Directory, inv[idx].Filename)
    /\ delIssued' = delIssued \cup {idx}
    /\ pc' = "deleted"
    /\ ev' = [op |-> "delete-sent", idx |-> idx]
    /\ UNCHANGED <<tzone, incoming, outgoing, opts, inv, inv2, idx, activeDownloads,
                   outcomes, builds>>

ItDeleteReturn ==
    /\ pc = "deleted"
    /\ DlReturn("deleted")
    /\ UNCHANGED <<world, opts, inv, inv2, delIssued, builds>>

\* A step of the handler goroutine.
IntStep(next, op) ==
    /\ Alive
    /\ sig' = next
    /\ ev' = [op |-> op]
    /\ UNCHANGED <<device, tzone, outgoing, flags, uploadedVideos, uploadedFileMap, groups,
                   faults, built, call, mdns, inv, inv2, idx, dlVars>>

\* <-sigChan: the signal arrives and the range over activeDownloads begins.
IntSignal ==
    /\ sig.pc = "waiting"
    /\ IntStep([sig EXCEPT !.pc = "removing", !.start = activeDownloads], "signal")
    /\ UNCHANGED <<incoming, pc>>

\* One pass of the loop: os.Remove(file), its error ignored.
IntRemove ==
    /\ sig.pc = "removing"
    /\ \E f \in activeDownloads \ sig.visited :
        /\ incoming' = Drop(incoming, f)
        /\ IntStep([sig EXCEPT !.visited = @ \cup {f},
                               !.removed = IF f \in DOMAIN incoming
                                           THEN @ \cup {[name |-> f, at |-> pc]}
                                           ELSE @],
                   "remove")
    /\ UNCHANGED pc

\* The range ends.  A key the main goroutine has put into the map since the
\* loop began may be produced or skipped.
IntLoopEnd ==
    /\ sig.pc = "removing"
    /\ (activeDownloads \cap sig.start) \subseteq sig.visited
    /\ IntStep([sig EXCEPT !.pc = "turbo"], "loop-end")
    /\ UNCHANGED <<incoming, pc>>

\* The main goroutine is about to write activeDownloads.
WritesMap ==
    \/ pc = "loop" /\ idx <= Len(inv) /\ shouldDownload(inv[idx], flags.force)
    \/ pc \in {"transfer", "copying", "mtime", "verify", "verified", "deleted"}

\* The map is iterated and written at once, without a lock: the runtime may
\* stop the process (concurrent map iteration and map write).
IntFatal ==
    /\ sig.pc = "removing"
    /\ WritesMap
    /\ IntStep([sig EXCEPT !.pc = "fatal", !.at = pc], "fatal")
    /\ pc' = "exited"
    /\ UNCHANGED incoming

\* ConfigureTurboTransfer(false) has returned: os.Exit(1).
IntExit ==
    /\ sig.pc = "turbo"
    /\ IntStep([sig EXCEPT !.pc = "exited", !.at = pc], "exit")
    /\ pc' = "exited"
    /\ UNCHANGED incoming

HandlerNext == IntSignal \/ IntRemove \/ IntLoopEnd \/ IntFatal \/ IntExit

InterruptNext ==
    \/ DlBuild \/ DlSkip \/ DlBegin \/ DlGetFail \/ ItCreate \/ ItCopyFail \/ ItCopyOK
    \/ DlMtimeFail \/ DlMtimeOK \/ DlVerifyFail \/ DlVerifyOK \/ DlKeep
    \/ ItDeleteSent \/ ItDeleteReturn \/ DlDeleteFail \/ DlDone
    \/ HandlerNext

\* The card holds one directory, the incoming directory is empty or holds one
\* file of an earlier pass.
InterruptInit ==
    /\ DownloadInit
    /\ \A i \in DOMAIN device : device[i].d = "100GOPRO"
    /\ \A n \in DOMAIN incoming : incoming[n].size = 1000

SpecInterrupt == InterruptInit /\ [][InterruptNext]_vars

\* The process ended on a signal while io.Copy of the current file ran.
InterruptedInFlight == pc = "exited" /\ sig.at = "copying"

\* DownloadMediaFile returned ctx.Err() for the file just handled.
CancelledInFlight == ev.op = "cancelled"

\* C24: a download cancelled in flight, by a process interrupt or by context
\* cancellation, has its partially written file deleted from incoming.
C24_PartialFileDeleted ==
    /\ InterruptedInFlight => inv[idx].Filename \notin DOMAIN incoming
    /\ CancelledInFlight => inv[ev.idx].Filename \notin DOMAIN incoming

\* The handler did remove the file of the running download before the exit.
PartialRemovedAtExit ==
    /\ InterruptedInFlight
    /\ \E r \in sig.removed : r.name = inv[idx].Filename /\ r.at = "copying"
    /\ inv[idx].Filename \notin DOMAIN incoming

\* ---------------------------------------------------------------------------
\* Fetch-if-missing.

Transferable(status, force) ==
    \/ status = OnlyRemote
    \/ force /\ status \in {InSync, OutOfSync}

\* The first pass was fully successful: every file it had to fetch is in
\* incoming when the second pass begins, with the listed size and the
\* recording time as its modification time.
FullySuccessfulPass ==
    /\ Len(builds) = 2
    /\ \A i \in DOMAIN builds[1].inv :
        Transferable(builds[1].inv[i].Status, flags.force) =>
            /\ builds[1].inv[i].Filename \in DOMAIN builds[2].incoming
            /\ builds[2].incoming[builds[1].inv[i].Filename] =
                   [size |-> builds[1].inv[i].Size, mtime |-> builds[1].inv[i].CreatedAt]

\* The gate alone: what is begun is transferable, what is skipped is not.
TransferGate ==
    /\ ev.op = "begin" => Transferable(inv[ev.idx].Status, flags.force)
    /\ ev.op = "skipped" => ~Transferable(inv[ev.idx].Status, flags.force)

\* C25: without --force a pass transfers exactly the OnlyRemote records; with
\* --force the InSync and OutOfSync ones as well; OnlyLocal and Processed
\* never; the pass right after a fully successful pass transfers nothing.
C25_FetchIfMissing ==
    /\ TransferGate
    /\ (FullySuccessfulPass /\ ~flags.force) => ev.op # "begin"

\* A second pass without --force that ended having transferred nothing, after
\* a first pass that downloaded a file: the record that was OnlyRemote is
\* InSync in the second inventory.
SecondPassIdle ==
    /\ pc = "done"
    /\ Len(builds) = 2
    /\ ~flags.force
    /\ flags.keepOriginal
    /\ builds[1].device = builds[2].device
    /\ \E i \in DOMAIN builds[1].inv : \E j \in DOMAIN inv :
        /\ builds[1].inv[i].Status = OnlyRemote
        /\ inv[j].Filename = builds[1].inv[i].Filename
        /\ inv[j].Status = InSync
    /\ \A i \in DOMAIN outcomes : outcomes[i] = "skipped"

\* No file name is listed in two directories of the card.
NoRepeatedName == \A i, j \in DOMAIN device : device[i].n = device[j].n => i = j

\* The second pass transfers nothing when no name is repeated on the card.
IdempotentOnDistinctNames ==
    (FullySuccessfulPass /\ ~flags.force /\ NoRepeatedName) => ev.op # "begin"

\* A pass with --force that transfers a record that is in sync.
ForcedTransfer == ev.op = "begin" /\ flags.force /\ inv[ev.idx].Status = InSync

(***************************************************************************)
(* The output path of a combined recording (cmd/combine.go                 *)
(* generateOutputPath, fsutil.GenerateUniqueFilename): one call for a      *)
(* group and a content of the outgoing directory.                          *)
(***************************************************************************)

MaxSuffix == 2

\* The first file of a group.
UqFirstFiles == [Filename : {GH010007}, CreatedAt : Times]

\* The names a combine run may have left in the directory.
UqNames ==
    {CounterName(OutputStem(<<f>>, g), c) :
        f \in UqFirstFiles, g \in {"media-id", "date"}, c \in 0..MaxSuffix}

UniqueInit ==
    /\ \E S \in SUBSET UqNames : outgoing = [n \in S |-> [size |-> 1000, mtime |-> 86000]]
    /\ call \in [op : {"generateOutputPath"}, first : UqFirstFiles,
                 groupBy : {"media-id", "date"}, done : {FALSE}, path : {<<>>}]
    /\ mdns = NoDiscovery
    /\ sig = NoSignal
    /\ device = <<>>
    /\ incoming = <<>>
    /\ tzone = 0
    /\ flags = NoFlags
    /\ inv = <<>>
    /\ inv2 = <<>>
    /\ pc = "start"
    /\ idx = 0
    /\ ev = NoEvent
    /\ faults = NoFaults
    /\ built = NoBuilt
    /\ groups = <<>>
    /\ uploadedVideos = {}
    /\ uploadedFileMap = {}
    /\ activeDownloads = {}
    /\ outcomes = <<>>
    /\ delIssued = {}
    /\ builds = <<>>

UqReturn(op) ==
    /\ pc = "start"
    /\ call' = [call EXCEPT !.done = TRUE,
                            !.path = generateOutputPath(<<call.first>>, call.groupBy, outgoing)]
    /\ pc' = "called"
    /\ ev' = [op |-> op]
    /\ UNCHANGED <<world, flags, uploadedVideos, uploadedFileMap, groups, faults, built, mdns, sig,
                   inv, inv2, idx, dlVars>>

\* The base name is free.
UqBase ==
    /\ OutputStem(<<call.first>>, call.groupBy) \o Mp4Ext \notin DOMAIN outgoing
    /\ UqReturn("base")

\* The base name is taken.
UqSuffixed ==
    /\ OutputStem(<<call.first>>, call.groupBy) \o Mp4Ext \in DOMAIN outgoing
    /\ UqReturn("suffixed")

UniqueNext == UqBase \/ UqSuffixed

SpecUnique == UniqueInit /\ [][UniqueNext]_vars

\* The stem of the call's base name.
UqStem == OutputStem(<<call.first>>, call.groupBy)

\* C26: the output path never names a file that exists in the outgoing
\* directory; it is the base name when that is free, else the name with the
\* first free suffix _1, _2, ...; the search ends.
C26_UniqueOutput ==
    (call.op = "generateOutputPath" /\ call.done) =>
        /\ call.path \notin DOMAIN outgoing
        /\ \E c \in 0..Cardinality(DOMAIN outgoing) :
            /\ call.path = CounterName(UqStem, c)
            /\ \A b \in 0..(c - 1) : CounterName(UqStem, b) \in DOMAIN outgoing

\* The base name and _1 are taken, _2 is free and chosen, though a later
\* suffix is taken too.
C26_Witness ==
    /\ call.op = "generateOutputPath"
    /\ call.done
    /\ call.groupBy = "media-id"
    /\ {CounterName(UqStem, 0), CounterName(UqStem, 1)} \subseteq DOMAIN outgoing
    /\ call.path = CounterName(UqStem, 2)

\* ---------------------------------------------------------------------------
\* Combine: the originals are deleted last.

\* The names of a group's files that were in incoming at the build and are
\* gone now.
GoneOriginals(g) ==
    {groups[g].files[i].Filename : i \in DOMAIN groups[g].files}
        \cap (DOMAIN builds[1].incoming \ DOMAIN incoming)

WithinOnePercent(actual, total) == actual * 100 >= total * 99 /\ actual * 100 <= total * 101

\* C27: the incoming originals of a group are deleted only after the
\* concatenation succeeded and the output's size was verified within 1% of
\* the group's TotalSize(), and only without keep-original; after a failed
\* concatenation or verification every original is still present.
C27_DeleteAfterVerify ==
    \A g \in DOMAIN outcomes :
        /\ GoneOriginals(g) # {} =>
            /\ ~flags.keepOriginal
            /\ outcomes[g].op \in {"combined", "delete-failed"}
            /\ outcomes[g].output \in DOMAIN outgoing
            /\ WithinOnePercent(outgoing[outcomes[g].output].size, TotalSize(groups[g].files))
        /\ outcomes[g].op \in {"ffmpeg-failed", "mtime-failed", "verify-failed", "kept"} =>
            \A i \in DOMAIN groups[g].files : Untouched(groups[g].files[i].Filename)
        /\ outcomes[g].op = "combined" =>
            \A i \in DOMAIN groups[g].files :
                groups[g].files[i].Filename \notin DOMAIN incoming

\* A group of two chapters was concatenated, verified and its originals
\* deleted.
C27_Witness ==
    /\ ~flags.keepOriginal
    /\ \E g \in DOMAIN outcomes :
        /\ outcomes[g].op = "combined"
        /\ Len(groups[g].files) >= 2
        /\ Cardinality(GoneOriginals(g)) >= 2

\* A verification that failed and left the originals in place.
VerifyFailedKeepsOriginals ==
    \E g \in DOMAIN outcomes :
        /\ outcomes[g].op = "verify-failed"
        /\ \A i \in DOMAIN groups[g].files : groups[g].files[i].Filename \in DOMAIN incoming

\* ---------------------------------------------------------------------------
\* The interrupt handler and completed downloads.

\* The handler took away a file whose transfer was complete and verified.
RemovedVerified == \E r \in sig.removed : r.at \in {"verified", "deleted"}

\* A file the inventory of this run lists on the device is neither on the
\* device nor in incoming.
LostEverywhere ==
    \E i \in DOMAIN inv :
        /\ inv[i].Status \in {OnlyRemote, InSync, OutOfSync}
        /\ ~OnDevice(device, inv[i].Directory, inv[i].Filename)
        /\ inv[i].Filename \notin DOMAIN incoming

\* C28: under every interleaving of the signal with the download loop, the
\* handler removes only partial downloads, never a file whose transfer was
\* completed and verified, and no file ends up absent from both the device
\* and incoming.
C28_OnlyPartialRemoved == ~RemovedVerified /\ ~LostEverywhere

\* ---------------------------------------------------------------------------
\* The keys of MediaIDs() and FilterByMediaID.

\* C29: for every id returned by MediaIDs(), FilterByMediaID(id) returns a
\* non-empty inventory, so combine by media ID never ends with the no-match
\* error on such a key, whatever undecodable names the inventory holds.
C29_KeysAlwaysMatch ==
    /\ \A ids \in {MediaIDs(inv)} :
        \A k \in DOMAIN ids : ~FilterByMediaID(inv, ids[k]).err
    /\ \A g \in DOMAIN outcomes : outcomes[g].op # "no-match"

\* The same for the keys of names that decode.
DecodableKeysMatch ==
    \A i \in DOMAIN inv :
        (inv[i].Status # Processed /\ ParseFilename(inv[i].Filename).IsValid) =>
            ~FilterByMediaID(inv, ParseFilename(inv[i].Filename).MediaID).err

\* ---------------------------------------------------------------------------
\* A failed download and the next pass.

\* Record j of the second inventory is out of sync for a file the first pass
\* set out to download: the first pass left its local file behind.
LeftByFailedDownload(j) ==
    /\ inv[j].Status = OutOfSync
    /\ \E i \in DOMAIN builds[1].inv :
        /\ builds[1].inv[i].Filename = inv[j].Filename
        /\ builds[1].inv[i].Directory = inv[j].Directory
        /\ builds[1].inv[i].Status = OnlyRemote

\* C30: a file whose download failed after its local file was created is
\* attempted again by a later pass without --force.
C30_FailedIsRetried ==
    (Len(builds) = 2 /\ pc = "done" /\ ~flags.force) =>
        \A j \in DOMAIN inv : LeftByFailedDownload(j) => outcomes[j] # "skipped"

\* A download that failed before the local file was created is attempted
\* again: the record is still OnlyRemote.
RetriedWhenNothingWritten ==
    /\ Len(builds) = 2
    /\ pc = "done"
    /\ ~flags.force
    /\ \E j \in DOMAIN inv :
        /\ inv[j].Status = OnlyRemote
        /\ outcomes[j] # "skipped"
        /\ \E i \in DOMAIN builds[1].inv :
            /\ builds[1].inv[i].Filename = inv[j].Filename
            /\ builds[1].inv[i].Status = OnlyRemote
        /\ NoRepeatedName

====
